---------------------------- MODULE Spec2Model ----------------------------
(***************************************************************************)
(* Model of the spreadsheet cell/formula engine and grid controller of     *)
(* src/src/components/Spreadsheet.tsx (the second, complete component,     *)
(* lines 411-953) and of the translation service it calls                  *)
(* (src/unnamed/part_001).                                                 *)
(*                                                                         *)
(* Representation.  A JavaScript string is a sequence of one-character     *)
(* strings (<<"=","A","1">> is "=A1"), so that startsWith, trim, the       *)
(* regular expressions, Number(), String() and eval() are computed         *)
(* character by character as the code computes them.  A JavaScript value   *)
(* is a tagged record: [t |-> "num", n, d] is the number n/d (d = 0        *)
(* encodes Infinity, -Infinity and NaN), [t |-> "str", s] a string,        *)
(* [t |-> "undefined"] and [t |-> "null"].  The numbers the model reaches  *)
(* are rationals of small magnitude with a short decimal expansion, which  *)
(* String() prints in full.                                                *)
(***************************************************************************)
EXTENDS Integers, Sequences, FiniteSets, TLC

(***************************************************************************)
(* Characters                                                              *)
(***************************************************************************)
DigitChars == <<"0", "1", "2", "3", "4", "5", "6", "7", "8", "9">>

UpperChars ==
  <<"A", "B", "C", "D", "E", "F", "G", "H", "I", "J", "K", "L", "M",
    "N", "O", "P", "Q", "R", "S", "T", "U", "V", "W", "X", "Y", "Z">>

LowerChars ==
  <<"a", "b", "c", "d", "e", "f", "g", "h", "i", "j", "k", "l", "m",
    "n", "o", "p", "q", "r", "s", "t", "u", "v", "w", "x", "y", "z">>

Range(seq) == {seq[i] : i \in 1..Len(seq)}

IndexOf(seq, c) == CHOOSE i \in 1..Len(seq) : seq[i] = c

IsDigit(c) == c \in Range(DigitChars)

IsUpper(c) == c \in Range(UpperChars)

IsLetter(c) == c \in Range(UpperChars) \cup Range(LowerChars)

IsSpace(c) == c = " "

DigitVal(c) == IndexOf(DigitChars, c) - 1

\* String.prototype.charCodeAt(0) of a string that starts with A..Z
CharCodeAt0(s) == 64 + IndexOf(UpperChars, s[1])

\* The characters of codes 65, 66, ...: the capitals and what follows them
CodeChars == UpperChars \o <<"[", "\\", "]", "^">>

\* String.fromCharCode for the codes from 65 on
FromCharCode(code) == CodeChars[code - 64]

(***************************************************************************)
(* Strings                                                                 *)
(***************************************************************************)
StartsWith(s, p) == Len(s) >= Len(p) /\ SubSeq(s, 1, Len(p)) = p

\* String.prototype.substring(1)
Substring1(s) == SubSeq(s, 2, Len(s))

RECURSIVE TrimStart(_)
TrimStart(s) ==
  IF s # <<>> /\ IsSpace(s[1]) THEN TrimStart(Tail(s)) ELSE s

RECURSIVE TrimEnd(_)
TrimEnd(s) ==
  IF s # <<>> /\ IsSpace(s[Len(s)]) THEN TrimEnd(SubSeq(s, 1, Len(s) - 1)) ELSE s

\* String.prototype.trim
Trim(s) == TrimEnd(TrimStart(s))

\* String.prototype.toLowerCase on the modelled alphabet
ToLowerCase(s) ==
  [i \in 1..Len(s) |->
     IF IsUpper(s[i]) THEN LowerChars[IndexOf(UpperChars, s[i])] ELSE s[i]]

\* The end (exclusive) of the longest run of digits that starts at position
\* i: the match of a greedy \d* at i.
RECURSIVE DigitRunEnd(_, _)
DigitRunEnd(s, i) ==
  IF i <= Len(s) /\ IsDigit(s[i]) THEN DigitRunEnd(s, i + 1) ELSE i

\* The same for [A-Z]*
RECURSIVE UpperRunEnd(_, _)
UpperRunEnd(s, i) ==
  IF i <= Len(s) /\ IsUpper(s[i]) THEN UpperRunEnd(s, i + 1) ELSE i

\* The same for identifier characters (letters and digits)
RECURSIVE IdentRunEnd(_, _)
IdentRunEnd(s, i) ==
  IF i <= Len(s) /\ (IsLetter(s[i]) \/ IsDigit(s[i])) THEN IdentRunEnd(s, i + 1) ELSE i

(***************************************************************************)
(* Numbers: n/d in lowest terms, d >= 0; 1/0 is Infinity, -1/0 is          *)
(* -Infinity, 0/0 is NaN.                                                  *)
(***************************************************************************)
Abs(x) == IF x < 0 THEN -x ELSE x

Sign(x) == IF x < 0 THEN -1 ELSE IF x > 0 THEN 1 ELSE 0

RECURSIVE Gcd(_, _)
Gcd(a, b) == IF b = 0 THEN a ELSE Gcd(b, a % b)

Reduced(n, d, g) == [t |-> "num", n |-> n \div g, d |-> d \div g]

MkNum(n, d) ==
  IF d = 0 THEN [t |-> "num", n |-> Sign(n), d |-> 0]
  ELSE Reduced(n, d, Gcd(Abs(n), d))

IntNum(n) == [t |-> "num", n |-> n, d |-> 1]

NaN == [t |-> "num", n |-> 0, d |-> 0]

Infinity == [t |-> "num", n |-> 1, d |-> 0]

NegInfinity == [t |-> "num", n |-> -1, d |-> 0]

Str(s) == [t |-> "str", s |-> s]

Undefined == [t |-> "undefined"]

Null == [t |-> "null"]

IsNum(v) == v.t = "num"

IsFinite(x) == x.d # 0

\* x + y of IEEE arithmetic
NumAdd(x, y) ==
  IF x.d = 0 /\ y.d = 0 /\ x.n = y.n THEN x
  ELSE MkNum(x.n * y.d + y.n * x.d, x.d * y.d)

NumNeg(x) == [t |-> "num", n |-> -(x.n), d |-> x.d]

NumSub(x, y) == NumAdd(x, NumNeg(y))

NumMul(x, y) == MkNum(x.n * y.n, x.d * y.d)

\* 1 / y; the zero of the model is +0
NumRecip(y) ==
  IF y.d = 0 THEN (IF y.n = 0 THEN NaN ELSE IntNum(0))
  ELSE IF y.n = 0 THEN Infinity
  ELSE MkNum(Sign(y.n) * y.d, Abs(y.n))

NumDiv(x, y) == NumMul(x, NumRecip(y))

\* ToBoolean of a number: 0 and NaN are falsy
NumTruthy(x) == x.n # 0

(***************************************************************************)
(* Number -> string (Number.prototype.toString, String(number))            *)
(***************************************************************************)
RECURSIVE NatToString(_)
NatToString(n) ==
  IF n < 10 THEN <<DigitChars[n + 1]>>
  ELSE NatToString(n \div 10) \o <<DigitChars[(n % 10) + 1]>>

\* The decimal digits of r/d, 0 <= r < d, for a d whose expansion terminates
RECURSIVE FracDigits(_, _)
FracDigits(r, d) ==
  IF r = 0 THEN <<>>
  ELSE <<DigitChars[((r * 10) \div d) + 1]>> \o FracDigits((r * 10) % d, d)

InfinityChars == <<"I", "n", "f", "i", "n", "i", "t", "y">>

NaNChars == <<"N", "a", "N">>

MinusIf(neg) == IF neg THEN <<"-">> ELSE <<>>

PointThen(frac) == IF frac = <<>> THEN <<>> ELSE <<".">> \o frac

NumToString(x) ==
  IF x.d = 0 THEN
    (IF x.n = 0 THEN NaNChars ELSE MinusIf(x.n < 0) \o InfinityChars)
  ELSE MinusIf(x.n < 0)
       \o NatToString(Abs(x.n) \div x.d)
       \o PointThen(FracDigits(Abs(x.n) % x.d, x.d))

(***************************************************************************)
(* String -> number (Number(string)): optional sign, then Infinity or      *)
(* decimal digits with an optional fraction; blank is 0; anything else     *)
(* NaN.  (Exponents and 0x/0o/0b literals do not occur in the model.)      *)
(***************************************************************************)
RECURSIVE DigitsToNat(_)
DigitsToNat(ds) ==
  IF ds = <<>> THEN 0
  ELSE DigitsToNat(SubSeq(ds, 1, Len(ds) - 1)) * 10 + DigitVal(ds[Len(ds)])

\* parseInt of a string of digits
ParseInt(ds) == DigitsToNat(ds)

RECURSIVE Pow10(_)
Pow10(k) == IF k = 0 THEN 1 ELSE 10 * Pow10(k - 1)

\* whole.frac as a number
DecimalOf(whole, frac) ==
  MkNum(DigitsToNat(whole) * Pow10(Len(frac)) + DigitsToNat(frac), Pow10(Len(frac)))

\* s = digits . digits, the point at position i and the fraction ending
\* before position j
DecimalWithPoint(s, i, j) ==
  IF j <= Len(s) \/ (i = 1 /\ j = i + 1) THEN NaN
  ELSE DecimalOf(SubSeq(s, 1, i - 1), SubSeq(s, i + 1, j - 1))

\* s with its leading digits ending before position i
DecimalFrom(s, i) ==
  IF i > Len(s) THEN (IF i = 1 THEN NaN ELSE IntNum(DigitsToNat(s)))
  ELSE IF s[i] # "." THEN NaN
  ELSE DecimalWithPoint(s, i, DigitRunEnd(s, i + 1))

\* An unsigned decimal literal: digits, digits.digits, digits. or .digits
UnsignedDecimal(s) == DecimalFrom(s, DigitRunEnd(s, 1))

Magnitude(body) ==
  IF body = InfinityChars THEN Infinity ELSE UnsignedDecimal(body)

\* Number() of a string without surrounding blanks
TrimmedToNumber(s) ==
  IF s = <<>> THEN IntNum(0)
  ELSE IF s[1] = "-" THEN NumNeg(Magnitude(Tail(s)))
  ELSE IF s[1] = "+" THEN Magnitude(Tail(s))
  ELSE Magnitude(s)

StringToNumber(str) == TrimmedToNumber(Trim(str))

(***************************************************************************)
(* eval(): the expression evaluator the formula engine hands the cleaned   *)
(* expression to.  The fragment of JavaScript modelled: decimal literals,  *)
(* the identifiers Infinity and NaN, unary and binary + and -, binary *    *)
(* and /, parentheses and blanks.  "++" and "--" are single tokens of the  *)
(* language (update operators), which no operand of the fragment accepts,  *)
(* so they are syntax errors.  Every other identifier of the model's       *)
(* inputs (SUM, AVERAGE, ...) is unbound.  A result with ok = FALSE is a   *)
(* thrown SyntaxError, ReferenceError or TypeError.  The inputs of the     *)
(* model contain no "**", "//" or "/*".                                    *)
(***************************************************************************)
Throw == [t |-> "throw"]

ParseFail == [ok |-> FALSE, v |-> Undefined, i |-> 0]

ParseOk(v, i) == [ok |-> TRUE, v |-> v, i |-> i]

\* The character at position i, or "" past the end
CharAt(s, i) == IF i >= 1 /\ i <= Len(s) THEN s[i] ELSE ""

RECURSIVE SkipSpaces(_, _)
SkipSpaces(s, i) ==
  IF i <= Len(s) /\ IsSpace(s[i]) THEN SkipSpaces(s, i + 1) ELSE i

RECURSIVE ParseAdditive(_, _)
RECURSIVE AdditiveRest(_, _, _)
RECURSIVE MultiplicativeRest(_, _, _)
RECURSIVE ParseUnary(_, _)

\* r: the parse of the expression after "(": the ")" must follow
CloseParen(s, r) ==
  IF r.ok /\ CharAt(s, SkipSpaces(s, r.i)) = ")"
  THEN ParseOk(r.v, SkipSpaces(s, r.i) + 1)
  ELSE ParseFail

\* A numeric literal from position i to before position k
NumericLiteral(s, i, k) ==
  IF SubSeq(s, i, k - 1) = <<".">> \/ IsLetter(CharAt(s, k)) THEN ParseFail
  ELSE ParseOk(UnsignedDecimal(SubSeq(s, i, k - 1)), k)

FractionEnd(s, j) == IF CharAt(s, j) = "." THEN DigitRunEnd(s, j + 1) ELSE j

\* An identifier from position i to before position j
Identifier(s, i, j) ==
  IF SubSeq(s, i, j - 1) = InfinityChars THEN ParseOk(Infinity, j)
  ELSE IF SubSeq(s, i, j - 1) = NaNChars THEN ParseOk(NaN, j)
  ELSE ParseFail

\* A primary expression at position i (not a blank)
PrimaryAt(s, i) ==
  IF CharAt(s, i) = "(" THEN CloseParen(s, ParseAdditive(s, i + 1))
  ELSE IF IsDigit(CharAt(s, i)) \/ CharAt(s, i) = "."
  THEN NumericLiteral(s, i, FractionEnd(s, DigitRunEnd(s, i)))
  ELSE IF IsLetter(CharAt(s, i)) THEN Identifier(s, i, IdentRunEnd(s, i))
  ELSE ParseFail

\* r: the parse of the operand of a unary + or -
ApplySign(c, r) ==
  IF r.ok THEN ParseOk(IF c = "-" THEN NumNeg(r.v) ELSE r.v, r.i) ELSE ParseFail

UnaryAt(s, i) ==
  IF CharAt(s, i) \in {"+", "-"} THEN
    (IF CharAt(s, i + 1) = CharAt(s, i) THEN ParseFail
     ELSE ApplySign(CharAt(s, i), ParseUnary(s, i + 1)))
  ELSE PrimaryAt(s, i)

ParseUnary(s, i0) == UnaryAt(s, SkipSpaces(s, i0))

\* r: the parse of the right operand of c, acc the left operand
ApplyMultiplicative(s, acc, c, r) ==
  IF r.ok
  THEN MultiplicativeRest(s, IF c = "*" THEN NumMul(acc, r.v) ELSE NumDiv(acc, r.v), r.i)
  ELSE ParseFail

MultiplicativeAt(s, acc, i) ==
  IF CharAt(s, i) \in {"*", "/"}
  THEN ApplyMultiplicative(s, acc, CharAt(s, i), ParseUnary(s, i + 1))
  ELSE ParseOk(acc, i)

MultiplicativeRest(s, acc, i0) == MultiplicativeAt(s, acc, SkipSpaces(s, i0))

MultiplicativeFrom(s, r) ==
  IF r.ok THEN MultiplicativeRest(s, r.v, r.i) ELSE ParseFail

ParseMultiplicative(s, i0) == MultiplicativeFrom(s, ParseUnary(s, i0))

ApplyAdditive(s, acc, c, r) ==
  IF r.ok
  THEN AdditiveRest(s, IF c = "+" THEN NumAdd(acc, r.v) ELSE NumSub(acc, r.v), r.i)
  ELSE ParseFail

AdditiveAt(s, acc, i) ==
  IF CharAt(s, i) \in {"+", "-"} THEN
    (IF CharAt(s, i + 1) = CharAt(s, i) THEN ParseFail
     ELSE ApplyAdditive(s, acc, CharAt(s, i), ParseMultiplicative(s, i + 1)))
  ELSE ParseOk(acc, i)

AdditiveRest(s, acc, i0) == AdditiveAt(s, acc, SkipSpaces(s, i0))

AdditiveFrom(s, r) ==
  IF r.ok THEN AdditiveRest(s, r.v, r.i) ELSE ParseFail

ParseAdditive(s, i0) == AdditiveFrom(s, ParseMultiplicative(s, i0))

\* r: the parse of the whole program: nothing but blanks may follow
WholeProgram(code, r) ==
  IF r.ok /\ SkipSpaces(code, r.i) > Len(code) THEN r.v ELSE Throw

\* eval(code): the value of the expression, undefined for an empty program,
\* Throw when eval throws
JsEval(code) ==
  IF SkipSpaces(code, 1) > Len(code) THEN Undefined
  ELSE WholeProgram(code, ParseAdditive(code, 1))

(***************************************************************************)
(* The cell store                                                          *)
(*   Cell: value (string), formula and computedValue (JavaScript values,   *)
(*   Undefined when the property is absent).  The grid is a function from  *)
(*   the addresses present to their cells.                                 *)
(***************************************************************************)
EmptyGrid == <<>>

LiteralCell(v) == [value |-> v, formula |-> Undefined, computedValue |-> Undefined]

FormulaCell(f, c) == [value |-> f, formula |-> Str(f), computedValue |-> c]

\* ToBoolean of a JavaScript value
Truthy(v) ==
  CASE v.t = "num" -> NumTruthy(v)
    [] v.t = "str" -> v.s # <<>>
    [] OTHER -> FALSE

\* cell.computedValue?.toString() || ''
ComputedToString(c) ==
  CASE c.t = "num" -> NumToString(c)
    [] c.t = "str" -> c.s
    [] OTHER -> <<>>

GetCellValue(cells, cellKey) ==
  IF cellKey \notin DOMAIN cells THEN <<>>
  ELSE IF Truthy(cells[cellKey].formula) THEN ComputedToString(cells[cellKey].computedValue)
  ELSE cells[cellKey].value

\* newCells[cellKey] = cell on a copy of the grid
SetCell(grid, cellKey, cell) ==
  [k \in DOMAIN grid \cup {cellKey} |-> IF k = cellKey THEN cell ELSE grid[k]]

(***************************************************************************)
(* Address/range parser                                                    *)
(***************************************************************************)
FirstUpperAt(s) ==
  CHOOSE p \in 1..Len(s) : IsUpper(s[p]) /\ \A q \in 1..(p - 1) : ~IsUpper(s[q])

FirstDigitAt(s) ==
  CHOOSE p \in 1..Len(s) : IsDigit(s[p]) /\ \A q \in 1..(p - 1) : ~IsDigit(s[q])

\* s.match(/[A-Z]+/)[0]: the first run of capitals
FirstUpperRun(s) == SubSeq(s, FirstUpperAt(s), UpperRunEnd(s, FirstUpperAt(s)) - 1)

\* s.match(/\d+/)[0]: the first run of digits
FirstDigitRun(s) == SubSeq(s, FirstDigitAt(s), DigitRunEnd(s, FirstDigitAt(s)) - 1)

\* `${String.fromCharCode(65 + col)}${row}`
CellKeyOf(col, row) == <<FromCharCode(65 + col)>> \o NatToString(row)

RECURSIVE RowValues(_, _, _, _)
RowValues(cells, row, col, endColIndex) ==
  IF col > endColIndex THEN <<>>
  ELSE <<GetCellValue(cells, CellKeyOf(col, row))>> \o RowValues(cells, row, col + 1, endColIndex)

RECURSIVE RangeRows(_, _, _, _, _)
RangeRows(cells, row, endRow, startColIndex, endColIndex) ==
  IF row > endRow THEN <<>>
  ELSE RowValues(cells, row, startColIndex, endColIndex)
       \o RangeRows(cells, row + 1, endRow, startColIndex, endColIndex)

\* startRow = parseInt(start.match(/\d+/)[0]), startColIndex =
\* start.match(/[A-Z]+/)[0].charCodeAt(0) - 65, and the same for end
GetRangeValues(cells, start, end) ==
  RangeRows(cells,
            ParseInt(FirstDigitRun(start)),
            ParseInt(FirstDigitRun(end)),
            CharCodeAt0(FirstUpperRun(start)) - 65,
            CharCodeAt0(FirstUpperRun(end)) - 65)

(***************************************************************************)
(* Formula evaluator                                                       *)
(***************************************************************************)
\* Number(val) || 0
OrZero(x) == IF NumTruthy(x) THEN x ELSE IntNum(0)

CoerceNumber(val) == OrZero(StringToNumber(val))

\* values.reduce((sum, val) => sum + (Number(val) || 0), 0)
RECURSIVE SumFrom(_, _, _)
SumFrom(values, i, sum) ==
  IF i > Len(values) THEN sum
  ELSE SumFrom(values, i + 1, NumAdd(sum, CoerceNumber(values[i])))

ReduceSum(values) == SumFrom(values, 1, IntNum(0))

NoMatch == [ok |-> FALSE, start |-> <<>>, end |-> <<>>]

\* The second address, from a2 to before k2, and the ")"
SumMatchEnd(s, start, a2, j2, k2) ==
  IF j2 > a2 /\ k2 > j2 /\ CharAt(s, k2) = ")"
  THEN [ok |-> TRUE, start |-> start, end |-> SubSeq(s, a2, k2 - 1)]
  ELSE NoMatch

SumMatchSecond(s, start, a2, j2) == SumMatchEnd(s, start, a2, j2, DigitRunEnd(s, j2))

\* The first address, from a1 to before k1, and the ":"
SumMatchColon(s, a1, j1, k1) ==
  IF j1 > a1 /\ k1 > j1 /\ CharAt(s, k1) = ":"
  THEN SumMatchSecond(s, SubSeq(s, a1, k1 - 1), k1 + 1, UpperRunEnd(s, k1 + 1))
  ELSE NoMatch

SumMatchFirst(s, a1, j1) == SumMatchColon(s, a1, j1, DigitRunEnd(s, j1))

\* /SUM\(([A-Z]+\d+):([A-Z]+\d+)\)/ tried at position p
SumMatchAt(s, p) ==
  IF p + 3 <= Len(s) /\ SubSeq(s, p, p + 3) = <<"S", "U", "M", "(">>
  THEN SumMatchFirst(s, p + 4, UpperRunEnd(s, p + 4))
  ELSE NoMatch

SumMatchAmong(s, ps) ==
  IF ps = {} THEN NoMatch ELSE SumMatchAt(s, CHOOSE p \in ps : \A q \in ps : p <= q)

\* expression.match(/SUM\(([A-Z]+\d+):([A-Z]+\d+)\)/): the leftmost match
SumMatch(s) == SumMatchAmong(s, {p \in 1..Len(s) : SumMatchAt(s, p).ok})

RECURSIVE ReplaceAddresses(_, _, _)

\* The capitals from i to before j, the digits that follow to before k
ReplaceRun(cells, s, i, j, k) ==
  IF k > j
  THEN NumToString(CoerceNumber(GetCellValue(cells, SubSeq(s, i, k - 1))))
       \o ReplaceAddresses(cells, s, k)
  ELSE SubSeq(s, i, j - 1) \o ReplaceAddresses(cells, s, j)

ReplaceFrom(cells, s, i, j) == ReplaceRun(cells, s, i, j, DigitRunEnd(s, j))

\* expression.replace(/[A-Z]+\d+/g, match => String(Number(getCellValue(match)) || 0))
ReplaceAddresses(cells, s, i) ==
  IF i > Len(s) THEN <<>>
  ELSE IF IsUpper(s[i]) THEN ReplaceFrom(cells, s, i, UpperRunEnd(s, i))
  ELSE <<s[i]>> \o ReplaceAddresses(cells, s, i + 1)

ErrorMarker == <<"#", "E", "R", "R", "O", "R", "!">>

\* if (range) { ... return values.reduce(...) }, else the arithmetic path
SumOrArithmetic(cells, expression, range) ==
  IF StartsWith(expression, <<"S", "U", "M", "(">>) /\ range.ok
  THEN ReduceSum(GetRangeValues(cells, range.start, range.end))
  ELSE JsEval(ReplaceAddresses(cells, expression, 1))

EvaluateExpression(cells, expression) ==
  SumOrArithmetic(cells, expression, SumMatch(expression))

\* The body of evaluateFormula's try block: the value returned, or Throw
EvaluateFormulaTry(cells, formula) == EvaluateExpression(cells, Substring1(formula))

\* catch { return '#ERROR!' } left out: the exception reaches the caller
PropagateThrow(r) == r

\* catch { return '#ERROR!' }
CatchError(r) == IF r = Throw THEN Str(ErrorMarker) ELSE r

\* evaluateFormula
EvaluateFormula(cells, formula) == CatchError(EvaluateFormulaTry(cells, formula))

(***************************************************************************)
(* Translation service (src/unnamed/part_001).  Languages are the codes    *)
(* "en", "km", "ne".  A non-ASCII character is written as its code point   *)
(* ("U+179F").  Confidences are in tenths (0.9 is 9).                      *)
(***************************************************************************)
Hello == <<"h", "e", "l", "l", "o">>

KhmerHello == <<"U+179F", "U+17BD", "U+179F", "U+17D2", "U+178F", "U+17B8">>

NepaliHello == <<"U+0928", "U+092E", "U+0938", "U+094D", "U+0924", "U+0947">>

\* /[ក-៿]/ on the characters of the model
IsKhmerChar(c) == c \in Range(KhmerHello)

\* /[ऀ-ॿ]/ on the characters of the model
IsNepaliChar(c) == c \in Range(NepaliHello)

TranslationModes ==
  << [id |-> "auto-khmer", sourceLang |-> "en", targetLang |-> "km", autoTranslate |-> TRUE],
     [id |-> "auto-nepali", sourceLang |-> "en", targetLang |-> "ne", autoTranslate |-> TRUE],
     [id |-> "auto-english", sourceLang |-> "km", targetLang |-> "en", autoTranslate |-> TRUE],
     [id |-> "manual", sourceLang |-> "en", targetLang |-> "en", autoTranslate |-> FALSE] >>

DetectLanguage(text) ==
  IF Trim(text) = <<>> THEN "en"
  ELSE IF \E i \in 1..Len(text) : IsKhmerChar(text[i]) THEN "km"
  ELSE IF \E i \in 1..Len(text) : IsNepaliChar(text[i]) THEN "ne"
  ELSE "en"

\* translations[`${from}-${to}`]?.[word]: the entry, or <<>> when there is
\* none (the entries for "hello" of the four tables)
BasicTranslation(from, to, word) ==
  CASE from = "en" /\ to = "km" /\ word = Hello -> KhmerHello
    [] from = "en" /\ to = "ne" /\ word = Hello -> NepaliHello
    [] from = "km" /\ to = "en" /\ word = KhmerHello -> Hello
    [] from = "ne" /\ to = "en" /\ word = NepaliHello -> Hello
    [] OTHER -> <<>>

FallbackResult(text, targetLang, detectedLang, found) ==
  IF detectedLang = targetLang
  THEN [text |-> text, detectedLanguage |-> detectedLang, confidence |-> 10]
  ELSE IF found # <<>>
  THEN [text |-> found, detectedLanguage |-> detectedLang, confidence |-> 7]
  ELSE [text |-> text, detectedLanguage |-> detectedLang, confidence |-> 0]

FallbackFor(text, targetLang, detectedLang) ==
  FallbackResult(text, targetLang, detectedLang,
                 BasicTranslation(detectedLang, targetLang, ToLowerCase(text)))

TranslateWithFallback(text, targetLang) ==
  FallbackFor(text, targetLang, DetectLanguage(text))

\* What the translation endpoint may answer: no answer (no API key, network
\* or HTTP error: translateWithGoogleAPI throws), or a translatedText.  The
\* endpoint is a black box; the answers modelled are the text as sent, the
\* text without its surrounding blanks, and the dictionary translation.
ApiFailure == [ok |-> FALSE, translatedText |-> <<>>]

ApiAnswers(text, targetLang) ==
  {ApiFailure}
  \cup {[ok |-> TRUE, translatedText |-> t] :
          t \in ({text, Trim(text),
                  BasicTranslation(DetectLanguage(text), targetLang, ToLowerCase(text))}
                 \ {<<>>})}

\* translate without its fallback: a failed request yields the text as it is
TranslateNoFallback(text, targetLang, api) ==
  IF Trim(text) = <<>>
  THEN [text |-> <<>>, detectedLanguage |-> targetLang, confidence |-> 10]
  ELSE IF api.ok
  THEN [text |-> api.translatedText, detectedLanguage |-> "auto", confidence |-> 9]
  ELSE [text |-> text, detectedLanguage |-> "en", confidence |-> 0]

\* translate(text, targetLang), given the endpoint's answer
Translate(text, targetLang, api) ==
  IF Trim(text) = <<>>
  THEN [text |-> <<>>, detectedLanguage |-> targetLang, confidence |-> 10]
  ELSE IF api.ok
  THEN [text |-> api.translatedText, detectedLanguage |-> "auto", confidence |-> 9]
  ELSE TranslateWithFallback(text, targetLang)

(***************************************************************************)
(* Persistence: JSON.stringify / JSON.parse of the grid.  A JSON text is   *)
(* modelled by the object it denotes; NaN and the infinities are written   *)
(* as null, undefined properties are left out.                             *)
(***************************************************************************)
\* localStorage.getItem of a key never set
NullItem == [kind |-> "null"]

\* A stored text that is not JSON
CorruptText == [kind |-> "text"]

JsonValue(v) == IF v.t = "num" /\ ~IsFinite(v) THEN Null ELSE v

JsonStringify(grid) ==
  [kind |-> "json",
   obj |-> [k \in DOMAIN grid |->
              [value |-> grid[k].value,
               formula |-> JsonValue(grid[k].formula),
               computedValue |-> JsonValue(grid[k].computedValue)]]]

\* JSON.parse: the object, or Throw for a text that is not JSON
JsonParse(text) == IF text.kind = "json" THEN text.obj ELSE Throw

(***************************************************************************)
(* updateCell                                                              *)
(***************************************************************************)
IsFormulaInput(value) == StartsWith(value, <<"=">>)

\* The grid updateCell hands to setCells for a formula: a copy of the grid
\* it closed over with the cell replaced; Throw when evaluateFormula throws
StoreFormula(cells, cellKey, value, computed) ==
  IF computed = Throw THEN Throw
  ELSE SetCell(cells, cellKey, FormulaCell(value, computed))

\* updateCell for a formula, were the formula evaluated again over the grid
\* that holds its first result
UpdateCellFormulaTwice(cells, cellKey, value) ==
  IF EvaluateFormula(cells, value) = Throw THEN Throw
  ELSE StoreFormula(cells, cellKey, value,
         EvaluateFormula(
           SetCell(cells, cellKey,
                   FormulaCell(value, EvaluateFormula(cells, value))),
           value))

UpdateCellFormula(cells, cellKey, value) ==
  StoreFormula(cells, cellKey, value, EvaluateFormula(cells, value))

\* currentMode.autoTranslate && value.trim()
NeedsTranslation(mode, value) == mode.autoTranslate /\ Trim(value) # <<>>

\* finalValue once the translation is back
FinalValueUntranslated(value, translation) == value

FinalValue(value, translation) ==
  IF translation.confidence # 0 /\ translation.confidence > 5
  THEN translation.text
  ELSE value

\* newCells[cellKey] = { value: finalValue } on the copy made when the
\* commit was issued
UpdateCellLiteral(newCells, cellKey, finalValue) ==
  SetCell(newCells, cellKey, LiteralCell(finalValue))

(***************************************************************************)
(* State                                                                   *)
(***************************************************************************)
VARIABLES
  pc,            \* "boot" before the mount effects ran, "ready", "crashed"
  cells,         \* useState: the grid
  storage,       \* localStorage["rtc-spreadsheet-data"]
  selectedCell,  \* useState
  editingCell,   \* useState: a cell key, or NoCell for null
  editValue,     \* useState: the edit buffer
  currentMode,   \* useState: the translation mode
  isTranslating, \* useState
  rows,          \* useState: number of rows of the grid
  cols,          \* useState: number of columns of the grid
  pending,       \* the updateCell calls suspended at their await
  nOps,          \* number of user operations so far
  lastOp,        \* history: the last operation and its arguments
  bootKind,      \* history: what the storage held at startup
  sinceClear,    \* history: a clear happened and nothing was issued since
  uncaught,      \* history: an exception escaped a handler
  currentUser,   \* the session of the auth service: a user id, or NoUser
  submissions,   \* localStorage["rtc_form_submissions"], parsed
  drafts,        \* localStorage["rtc_form_drafts"], parsed
  now,           \* Date.now()
  editor,        \* the state of the multilingual form editor, when shown
  photos,        \* localStorage["rtc_photo_metadata"], parsed
  metricsCache,  \* localStorage["rtc_dashboard_metrics"], parsed
  userStorage    \* localStorage["rtc_user"]

gridVars == <<cells, storage>>

uiVars == <<selectedCell, editingCell, editValue>>

modeVars == <<currentMode, isTranslating>>

sizeVars == <<rows, cols>>

histVars == <<lastOp, bootKind, sinceClear, uncaught>>

\* The state of the services beside the spreadsheet
appVars == <<currentUser, submissions, drafts, now, editor, photos,
            metricsCache, userStorage>>

\* The stores of the photo safety service and of the dashboard service
storeVars == <<photos, metricsCache>>

vars == <<pc, gridVars, uiVars, modeVars, sizeVars, pending, nOps, histVars,
          appVars>>

\* The state of the spreadsheet component, but for the operation counter
\* and the record of the last operation
sheetVars == <<pc, gridVars, uiVars, modeVars, sizeVars, pending,
               bootKind, sinceClear, uncaught>>

NoCell == <<>>

A1 == <<"A", "1">>

A2 == <<"A", "2">>

B1 == <<"B", "1">>

B2 == <<"B", "2">>

(***************************************************************************)
(* Bounds and input sets                                                   *)
(***************************************************************************)
\* User operations per run of the grid controller
MaxOps == 2

\* Commits suspended at their await at one time
MaxPending == 2

\* Formula commits per run of the evaluator specification
MaxEvalOps == 1

GridKeys == {A1, B1}

SumA1A2 == <<"=", "S", "U", "M", "(", "A", "1", ":", "A", "2", ")">>

OneOverZero == <<"=", "1", "/", "0">>

\* " =5": a formula typed after a blank, which startsWith('=') misses
BlankThenFormula == <<" ", "=", "5">>

LiteralInputs == {<<"7">>, Hello, BlankThenFormula, <<>>}

FormulaInputs == {SumA1A2, OneOverZero}

GridInputs == LiteralInputs \cup FormulaInputs

GridModes == {TranslationModes[1], TranslationModes[4]}

\* A grid saved by an earlier session
SavedGrid == SetCell(SetCell(EmptyGrid, A1, LiteralCell(<<"5">>)), A2, LiteralCell(<<"1", "0">>))

InitialStorage == {NullItem, CorruptText, JsonStringify(SavedGrid)}

StorageKind(item) ==
  IF item = NullItem THEN "none" ELSE IF item = CorruptText THEN "corrupt" ELSE "saved"

(***************************************************************************)
(* Startup                                                                 *)
(***************************************************************************)
\* <Spreadsheet rows={50} cols={15} />
AppRows == 50

AppCols == 15

\* getCurrentUser() returns null: nobody is logged in
NoUser == "none"

\* An empty object: {}
EmptyObject == <<>>

\* The form editor is not shown
NoEditor == [shown |-> FALSE]

\* getCachedMetrics() of a storage without the item: null
NoCache == [cached |-> FALSE]

\* The services before anyone logged in, with the drafts stored by earlier
\* sessions, at a time
InitAppWith(storedDrafts, time) ==
  /\ currentUser = NoUser
  /\ submissions = EmptyObject
  /\ drafts = storedDrafts
  /\ now = time
  /\ editor = NoEditor
  /\ photos = EmptyObject
  /\ metricsCache = NoCache
  /\ userStorage = NullItem

\* The services before anyone logged in, with nothing stored
InitApp == InitAppWith(EmptyObject, 0)

\* The component constructed with the given stored item and dimensions
InitSheet(items, r, c) ==
  /\ rows = r
  /\ cols = c
  /\ pc = "boot"
  /\ cells = EmptyGrid
  /\ storage \in items
  /\ selectedCell = A1
  /\ editingCell = NoCell
  /\ editValue = <<>>
  /\ currentMode = TranslationModes[1]
  /\ isTranslating = FALSE
  /\ pending = {}
  /\ nOps = 0
  /\ lastOp = [op |-> "init"]
  /\ bootKind = StorageKind(storage)
  /\ sinceClear = FALSE
  /\ uncaught = FALSE

InitSized(items, r, c) == InitApp /\ InitSheet(items, r, c)

InitWith(items) == InitSized(items, AppRows, AppCols)

Init == InitWith(InitialStorage)

\* The load effect without its try/catch
LoadSavedDataNoCatch(savedData) ==
  IF savedData = NullItem THEN [threw |-> FALSE, set |-> FALSE, cells |-> EmptyGrid]
  ELSE IF JsonParse(savedData) = Throw
  THEN [threw |-> TRUE, set |-> FALSE, cells |-> EmptyGrid]
  ELSE [threw |-> FALSE, set |-> TRUE, cells |-> JsonParse(savedData)]

\* The load effect: if (savedData) { try { setCells(JSON.parse(savedData)) }
\* catch { console.error } }
LoadSavedData(savedData) ==
  IF savedData = NullItem THEN [threw |-> FALSE, set |-> FALSE, cells |-> EmptyGrid]
  ELSE IF JsonParse(savedData) = Throw
  THEN [threw |-> FALSE, set |-> FALSE, cells |-> EmptyGrid]
  ELSE [threw |-> FALSE, set |-> TRUE, cells |-> JsonParse(savedData)]

\* The persist effect: localStorage.setItem(key, JSON.stringify(cells))
Persist(grid) == JsonStringify(grid)

\* The mount effects, in order: load, then persist (of the initial empty
\* grid and, after the re-render that setCells causes, of the loaded grid)
Mount ==
  /\ pc = "boot"
  /\ LET r == LoadSavedData(storage)
     IN IF r.threw
        THEN /\ pc' = "crashed"
             /\ uncaught' = TRUE
             /\ UNCHANGED gridVars
        ELSE /\ pc' = "ready"
             /\ cells' = (IF r.set THEN r.cells ELSE cells)
             /\ storage' = Persist(cells')
             /\ UNCHANGED uncaught
  /\ lastOp' = [op |-> "mount"]
  /\ UNCHANGED <<uiVars, modeVars, sizeVars, appVars, pending, nOps, bootKind, sinceClear>>

(***************************************************************************)
(* Grid controller                                                         *)
(***************************************************************************)
\* handleCellClick / startEditingCell
HandleCellClick(cellKey) ==
  /\ pc = "ready" /\ nOps < MaxOps
  /\ selectedCell' = cellKey
  /\ editingCell' = cellKey
  /\ editValue' = (IF cellKey \in DOMAIN cells /\ cells[cellKey].value # <<>>
                   THEN cells[cellKey].value ELSE <<>>)
  /\ nOps' = nOps + 1
  /\ lastOp' = [op |-> "click", key |-> cellKey]
  /\ UNCHANGED <<pc, gridVars, modeVars, sizeVars, appVars, pending, bootKind, sinceClear, uncaught>>

\* updateCell(cellKey, value) for a value it stores without awaiting (a
\* formula, or a literal that is not sent for translation): the grid and its
\* stored copy.  via: the handler that called handleCellEdit.
CommitNowGrid(cellKey, value, via) ==
  /\ IsFormulaInput(value) \/ ~NeedsTranslation(currentMode, value)
  /\ LET newCells == IF IsFormulaInput(value)
                     THEN UpdateCellFormula(cells, cellKey, value)
                     ELSE UpdateCellLiteral(cells, cellKey, value)
     IN IF newCells = Throw
        THEN /\ uncaught' = TRUE
             /\ UNCHANGED gridVars
        ELSE /\ cells' = newCells
             /\ storage' = Persist(cells')
             /\ UNCHANGED uncaught
  /\ lastOp' = [op |-> "commit", key |-> cellKey, input |-> value,
                mode |-> currentMode, text |-> value, confidence |-> 0,
                id |-> nOps, failed |-> FALSE, via |-> via]
  /\ UNCHANGED <<modeVars, pending>>

\* updateCell rejects: the rest of handleCellEdit does not run
CommitThrows(cellKey, value) ==
  IsFormulaInput(value) /\ UpdateCellFormula(cells, cellKey, value) = Throw

\* The rest of handleCellEdit: setEditingCell(null); setEditValue('')
CommitNowCursor(cellKey, value) ==
  IF CommitThrows(cellKey, value)
  THEN UNCHANGED <<editingCell, editValue>>
  ELSE editingCell' = NoCell /\ editValue' = <<>>

\* handleCellEdit(cellKey, value) for a value updateCell stores without
\* awaiting.  The continuation after `await updateCell` runs in the same
\* task.
CommitNow(cellKey, value) ==
  /\ CommitNowGrid(cellKey, value, "edit")
  /\ CommitNowCursor(cellKey, value)
  /\ UNCHANGED selectedCell

\* updateCell(cellKey, value) for a literal that is sent for translation:
\* it copies the grid, sets isTranslating and suspends
CommitAwaitGrid(cellKey, value, via) ==
  /\ ~IsFormulaInput(value) /\ NeedsTranslation(currentMode, value)
  /\ Cardinality(pending) < MaxPending
  /\ pending' = pending \cup
                  {[id |-> nOps, cellKey |-> cellKey, value |-> value,
                    newCells |-> cells, mode |-> currentMode, via |-> via]}
  /\ isTranslating' = TRUE
  /\ lastOp' = [op |-> "issue", key |-> cellKey, input |-> value,
                mode |-> currentMode, via |-> via]
  /\ UNCHANGED <<gridVars, currentMode, uncaught>>

\* handleCellEdit(cellKey, value) for a literal that is sent for translation
CommitAwait(cellKey, value) ==
  /\ CommitAwaitGrid(cellKey, value, "edit")
  /\ UNCHANGED uiVars

\* What every call of handleCellEdit leaves alone, and the bookkeeping
CommitFrame ==
  /\ nOps' = nOps + 1
  /\ sinceClear' = FALSE
  /\ UNCHANGED <<pc, sizeVars, appVars, bootKind>>

HandleCellEdit(cellKey, value) ==
  /\ pc = "ready" /\ nOps < MaxOps
  /\ CommitNow(cellKey, value) \/ CommitAwait(cellKey, value)
  /\ CommitFrame

\* The translation of a suspended updateCell comes back: the rest of
\* updateCell, then the rest of handleCellEdit
TranslationDone(p, api) ==
  /\ pc = "ready"
  /\ p \in pending
  /\ api \in ApiAnswers(p.value, p.mode.targetLang)
  /\ LET translation == Translate(p.value, p.mode.targetLang, api)
         finalValue == FinalValue(p.value, translation)
     IN /\ cells' = UpdateCellLiteral(p.newCells, p.cellKey, finalValue)
        /\ lastOp' = [op |-> "commit", key |-> p.cellKey, input |-> p.value,
                      mode |-> p.mode, text |-> translation.text,
                      confidence |-> translation.confidence,
                      id |-> p.id, failed |-> ~api.ok, via |-> p.via]
  /\ storage' = Persist(cells')
  /\ isTranslating' = FALSE
  /\ pending' = pending \ {p}
  /\ editingCell' = NoCell
  /\ editValue' = <<>>
  /\ UNCHANGED <<pc, selectedCell, currentMode, sizeVars, appVars, nOps, bootKind, sinceClear, uncaught>>

\* Some suspended updateCell gets some answer of the endpoint
TranslationReturns ==
  \E p \in pending :
    \E api \in ApiAnswers(p.value, p.mode.targetLang) : TranslationDone(p, api)

\* handleClear, confirmed
HandleClear ==
  /\ pc = "ready" /\ nOps < MaxOps
  /\ cells' = EmptyGrid
  /\ storage' = Persist(cells')
  /\ nOps' = nOps + 1
  /\ lastOp' = [op |-> "clear"]
  /\ sinceClear' = TRUE
  /\ UNCHANGED <<pc, uiVars, modeVars, sizeVars, appVars, pending, bootKind, uncaught>>

\* handleLoad: the chosen file has been read
HandleLoad(file) ==
  /\ pc = "ready" /\ nOps < MaxOps
  /\ IF JsonParse(file) = Throw
     THEN UNCHANGED gridVars
     ELSE /\ cells' = JsonParse(file)
          /\ storage' = Persist(cells')
  /\ nOps' = nOps + 1
  /\ lastOp' = [op |-> "load"]
  /\ sinceClear' = FALSE
  /\ UNCHANGED <<pc, uiVars, modeVars, sizeVars, appVars, pending, bootKind, uncaught>>

\* LanguageSelector: onTranslationModeChange(mode)
SetCurrentMode(mode) ==
  /\ pc = "ready" /\ nOps < MaxOps
  /\ mode # currentMode
  /\ currentMode' = mode
  /\ nOps' = nOps + 1
  /\ lastOp' = [op |-> "mode"]
  /\ UNCHANGED <<pc, gridVars, uiVars, isTranslating, sizeVars, appVars, pending, bootKind, sinceClear, uncaught>>

Next ==
  \/ Mount
  \/ \E k \in GridKeys : HandleCellClick(k)
  \/ \E k \in GridKeys, v \in GridInputs : HandleCellEdit(k, v)
  \/ TranslationReturns
  \/ HandleClear
  \/ \E f \in {CorruptText, JsonStringify(SavedGrid)} : HandleLoad(f)
  \/ \E m \in GridModes : SetCurrentMode(m)

Spec == Init /\ [][Next]_vars

(***************************************************************************)
(* The evaluator specification: the grid is restored from a saved grid of  *)
(* literals, then formulas are committed                                   *)
(***************************************************************************)
A3 == <<"A", "3">>

EvalAddresses == {A1, A2, B1, B2}

EvalTargets == {A3, A2}

A1Values == {<<"5">>, <<"-", "5">>, <<"a", "b", "c">>}

FullGrids ==
  {SetCell(SetCell(SetCell(EmptyGrid, A1, LiteralCell(a)),
                   A2, LiteralCell(<<"1", "0">>)),
           B2, LiteralCell(<<"2">>)) : a \in A1Values}

\* The saved grids: each of A1, A2, B2 present or absent
EvalGrids == {[k \in ks |-> g[k]] : g \in FullGrids, ks \in SUBSET {A1, A2, B2}}

EvalStorage == {JsonStringify(g) : g \in EvalGrids}

SumFormula(X, Y) == <<"=", "S", "U", "M", "(">> \o X \o <<":">> \o Y \o <<")">>

SumFormulas == {SumFormula(X, Y) : X \in EvalAddresses, Y \in EvalAddresses}

\* Arithmetic expressions as trees
Lit(n) == [k |-> "lit", n |-> n]

Ref(a) == [k |-> "ref", a |-> a]

Par(e) == [k |-> "par", e |-> e]

Bin(l, op, r) == [k |-> "bin", op |-> op, l |-> l, r |-> r]

ArithmeticExprs ==
  { Bin(Ref(A1), "+", Lit(5)),
    Bin(Lit(3), "-", Ref(A1)),
    Bin(Par(Bin(Ref(A1), "+", Ref(A2))), "*", Lit(2)),
    Bin(Ref(A1), "+", Bin(Ref(A2), "*", Lit(2))),
    Bin(Ref(A1), "/", Lit(2)),
    Bin(Bin(Ref(A2), "-", Lit(4)), "-", Lit(3)),
    Bin(Ref(A2), "/", Ref(A1)) }

RECURSIVE Render(_)
\* The text of an expression as the user types it
Render(e) ==
  CASE e.k = "lit" -> NatToString(e.n)
    [] e.k = "ref" -> e.a
    [] e.k = "par" -> <<"(">> \o Render(e.e) \o <<")">>
    [] e.k = "bin" -> Render(e.l) \o <<e.op>> \o Render(e.r)

ArithmeticFormula(e) == <<"=">> \o Render(e)

ArithmeticFormulas == {ArithmeticFormula(e) : e \in ArithmeticExprs}

\* "=A1:A2)"
MalformedRange == <<"=", "A", "1", ":", "A", "2", ")">>

\* "=SUM(A1:A2"
UnclosedSum == <<"=", "S", "U", "M", "(", "A", "1", ":", "A", "2">>

\* "=AVERAGE(A1:A2)"
AverageA1A2 == <<"=", "A", "V", "E", "R", "A", "G", "E", "(", "A", "1", ":", "A", "2", ")">>

\* "=MAX(A1:A2)"
MaxA1A2 == <<"=", "M", "A", "X", "(", "A", "1", ":", "A", "2", ")">>

\* "=MIN(A1:A2)"
MinA1A2 == <<"=", "M", "I", "N", "(", "A", "1", ":", "A", "2", ")">>

OtherFormulas ==
  {MalformedRange, UnclosedSum, AverageA1A2, MaxA1A2, MinA1A2, <<"=">>}

EvalFormulas == SumFormulas \cup ArithmeticFormulas \cup OtherFormulas

InitEval == InitWith(EvalStorage)

\* handleCellEdit(cellKey, formula)
FormulaCommit(cellKey, formula) ==
  /\ pc = "ready" /\ nOps < MaxEvalOps
  /\ CommitNow(cellKey, formula)
  /\ CommitFrame

NextEval ==
  \/ Mount
  \/ \E k \in EvalTargets, f \in EvalFormulas : FormulaCommit(k, f)

SpecEval == InitEval /\ [][NextEval]_vars

(***************************************************************************)
(* Properties                                                              *)
(***************************************************************************)
\* The step completes a commit (the grid handed to setCells is in place)
CommitStep == lastOp'.op = "commit"

\* The step replaces the whole grid by design
WholeGridStep == lastOp'.op \in {"mount", "clear", "load"}

HasFormula(cell) == cell.formula # Undefined

\* C1: once a formula cell F is committed, every later step other than a
\* commit to F itself (or a clear or load) leaves F in the grid with the same
\* computed value, and a commit of a formula stores the value computed from
\* the cells' current contents.
C1_FormulaStaleUntilRecommitted ==
  [][/\ \A F \in DOMAIN cells :
          (HasFormula(cells[F]) /\ ~WholeGridStep /\ ~(CommitStep /\ lastOp'.key = F))
            => /\ F \in DOMAIN cells'
               /\ cells'[F].computedValue = cells[F].computedValue
     /\ (CommitStep /\ IsFormulaInput(lastOp'.input))
          => /\ lastOp'.key \in DOMAIN cells'
             /\ cells'[lastOp'.key].computedValue = EvaluateFormula(cells, lastOp'.input)
    ]_vars

\* C2: except for clear and load (and the restore at startup), no step
\* removes an address or changes the cell at an address other than the one
\* being committed, also when the commit was issued before other commits
\* completed.
C2_CommitChangesOnlyItsCell ==
  [][~WholeGridStep =>
       \A k \in (DOMAIN cells \cup DOMAIN cells') :
          (CommitStep /\ k = lastOp'.key) \/
          (k \in DOMAIN cells /\ k \in DOMAIN cells' /\ cells'[k] = cells[k])
    ]_vars

\* The last step completed the commit of a literal
LiteralCommitted == lastOp.op = "commit" /\ ~IsFormulaInput(lastOp.input)

\* C3 as stated: once the commit of a literal has completed, the stored
\* value equals the input, whatever the translation mode.
C3_LiteralStoredVerbatim ==
  LiteralCommitted =>
    /\ lastOp.key \in DOMAIN cells
    /\ cells[lastOp.key].value = lastOp.input

\* C3 amended: once the commit of a literal has completed, the stored value
\* is the input when the mode does not translate, the input is blank or the
\* translation came back with confidence at most 0.5, and the translation's
\* text otherwise.
C3_LiteralStoredOrTranslated ==
  LiteralCommitted =>
    /\ lastOp.key \in DOMAIN cells
    /\ ~HasFormula(cells[lastOp.key])
    /\ cells[lastOp.key].value =
         IF lastOp.mode.autoTranslate /\ Trim(lastOp.input) # <<>> /\ lastOp.confidence > 5
         THEN lastOp.text
         ELSE lastOp.input

\* "hello" committed in an auto-translate mode is stored as its translation
C3_TranslatedWitness ==
  /\ LiteralCommitted
  /\ lastOp.mode.autoTranslate
  /\ lastOp.input = Hello
  /\ cells[lastOp.key].value = KhmerHello

(***************************************************************************)
(* Reference semantics of formulas                                         *)
(***************************************************************************)
ColumnOf(X) == IndexOf(UpperChars, X[1])

RowOf(X) == DigitsToNat(Tail(X))

Min(a, b) == IF a <= b THEN a ELSE b

Max(a, b) == IF a <= b THEN b ELSE a

\* The addresses of the rectangular span from X to Y
Span(X, Y) ==
  {<<UpperChars[c]>> \o NatToString(r) :
     c \in Min(ColumnOf(X), ColumnOf(Y))..Max(ColumnOf(X), ColumnOf(Y)),
     r \in Min(RowOf(X), RowOf(Y))..Max(RowOf(X), RowOf(Y))}

\* The display value of a cell coerced to a number, 0 when it is not one
NumericCoercion(grid, k) == OrZero(StringToNumber(GetCellValue(grid, k)))

RECURSIVE SumOver(_, _)
SumOver(grid, S) ==
  IF S = {} THEN IntNum(0)
  ELSE NumAdd(NumericCoercion(grid, CHOOSE k \in S : TRUE),
              SumOver(grid, S \ {CHOOSE k \in S : TRUE}))

RECURSIVE RefEval(_, _)
\* The value of an expression tree with each address replaced by the
\* numeric coercion of its cell
RefEval(grid, e) ==
  CASE e.k = "lit" -> IntNum(e.n)
    [] e.k = "ref" -> NumericCoercion(grid, e.a)
    [] e.k = "par" -> RefEval(grid, e.e)
    [] e.k = "bin" /\ e.op = "+" -> NumAdd(RefEval(grid, e.l), RefEval(grid, e.r))
    [] e.k = "bin" /\ e.op = "-" -> NumSub(RefEval(grid, e.l), RefEval(grid, e.r))
    [] e.k = "bin" /\ e.op = "*" -> NumMul(RefEval(grid, e.l), RefEval(grid, e.r))
    [] e.k = "bin" /\ e.op = "/" -> NumDiv(RefEval(grid, e.l), RefEval(grid, e.r))

\* C4: for every pair of addresses X and Y, committing "=SUM(X:Y)" stores the
\* sum, over every cell of the rectangular span from X to Y, of the cell's
\* display value coerced to a number.
C4_SumOverSpan ==
  [][\A X \in EvalAddresses, Y \in EvalAddresses :
       (CommitStep /\ lastOp'.input = SumFormula(X, Y))
         => /\ lastOp'.key \in DOMAIN cells'
            /\ cells'[lastOp'.key].computedValue = SumOver(cells, Span(X, Y))
    ]_vars

\* C5: committing an arithmetic formula over addresses, numeric literals,
\* + - * / and parentheses stores the value of the expression with each
\* address replaced by its cell's numeric coercion.
C5_ArithmeticOverCoercions ==
  [][\A e \in ArithmeticExprs :
       (CommitStep /\ lastOp'.input = ArithmeticFormula(e))
         => /\ lastOp'.key \in DOMAIN cells'
            /\ cells'[lastOp'.key].computedValue = RefEval(cells, e)
    ]_vars

\* C6: a formula commit never throws to the caller: it completes, stores the
\* cell with the error marker "#ERROR!" as computed value when parsing or
\* evaluation fails, and leaves every other cell of the grid unchanged.
C6_FormulaCommitNeverThrows ==
  [][(CommitStep /\ IsFormulaInput(lastOp'.input))
       => /\ ~uncaught'
          /\ DOMAIN cells' = DOMAIN cells \cup {lastOp'.key}
          /\ cells'[lastOp'.key].value = lastOp'.input
          /\ cells'[lastOp'.key].formula = Str(lastOp'.input)
          /\ (EvaluateFormulaTry(cells, lastOp'.input) = Throw
                => cells'[lastOp'.key].computedValue = Str(ErrorMarker))
          /\ \A k \in DOMAIN cells \ {lastOp'.key} : cells'[k] = cells[k]
          /\ editingCell' = NoCell
    ]_vars

\* The malformed "=A1:A2)" was committed next to other cells: it shows the
\* error marker and the other cells are still there
C6_ErrorMarkerWitness ==
  /\ lastOp.op = "commit"
  /\ lastOp.input = MalformedRange
  /\ ~uncaught
  /\ cells[lastOp.key].computedValue = Str(ErrorMarker)
  /\ GetCellValue(cells, lastOp.key) = ErrorMarker
  /\ A1 \in DOMAIN cells

\* C7: after a clear the grid mapping is empty and every address reads as
\* the empty string, until a commit is issued after the clear (or a file is
\* loaded), also while a commit issued before the clear awaits its
\* translation.
C7_ClearedGridStaysEmpty ==
  sinceClear =>
    /\ cells = EmptyGrid
    /\ \A k \in GridKeys : GetCellValue(cells, k) = <<>>

\* C8: a stored cell has a formula field if and only if its raw value starts
\* with "="; a cell with a formula displays its cached computed value and a
\* cell without one displays its raw value.
C8_FormulaIffEqualsSign ==
  \A k \in DOMAIN cells :
    /\ HasFormula(cells[k]) <=> StartsWith(cells[k].value, <<"=">>)
    /\ HasFormula(cells[k]) => GetCellValue(cells, k) = ComputedToString(cells[k].computedValue)
    /\ ~HasFormula(cells[k]) => GetCellValue(cells, k) = cells[k].value

\* C9: after every completed commit, clear or load the stored item is the
\* JSON serialization of the current grid, and the grid it denotes has the
\* same addresses with the same cells as the grid in memory.
C9_StorageMirrorsGrid ==
  lastOp.op \in {"commit", "clear", "load"} =>
    /\ storage = JsonStringify(cells)
    /\ JsonParse(storage) = cells

\* The state a fresh start (nothing saved) is in after the mount effects
FreshlyMounted ==
  /\ pc = "ready"
  /\ cells = EmptyGrid
  /\ storage = JsonStringify(EmptyGrid)
  /\ selectedCell = A1
  /\ editingCell = NoCell
  /\ editValue = <<>>
  /\ currentMode = TranslationModes[1]
  /\ ~isTranslating
  /\ pending = {}

\* C10: when the stored item is not JSON at startup, loading does not throw,
\* and the mount effects leave the state a start with nothing saved is in,
\* so that every later operation behaves as on a fresh grid.
C10_CorruptStorageStartsFresh ==
  bootKind = "corrupt" =>
    /\ pc # "crashed"
    /\ ~uncaught
    /\ lastOp.op = "mount" => FreshlyMounted

\* Started on corrupt storage, then a cell was committed
C10_CorruptThenCommitWitness ==
  /\ bootKind = "corrupt"
  /\ pc = "ready"
  /\ lastOp.op = "commit"
  /\ cells # EmptyGrid
  /\ storage = JsonStringify(cells)

\* The last step completed a commit whose translation request failed
FailedTranslationCommitted == lastOp.op = "commit" /\ lastOp.failed

\* What the local table of common terms gives for the input, the input
\* itself when the table has no entry
TableTermOrInput(input, targetLang) ==
  IF DetectLanguage(input) # targetLang
     /\ BasicTranslation(DetectLanguage(input), targetLang, ToLowerCase(input)) # <<>>
  THEN BasicTranslation(DetectLanguage(input), targetLang, ToLowerCase(input))
  ELSE input

\* The commit is over: cursor and buffer cleared, flag down, nothing of it
\* left in flight
CommitWoundUp ==
  /\ editingCell = NoCell
  /\ editValue = <<>>
  /\ ~isTranslating
  /\ \A q \in pending : q.id # lastOp.id

\* C11 as stated: when the translation request of a literal commit fails the
\* commit completes, the cell stores the untranslated input, cursor and
\* buffer are cleared, isTranslating is false again and no request is
\* issued again for the commit.
C11_FailedTranslationStoresInput ==
  FailedTranslationCommitted =>
    /\ lastOp.key \in DOMAIN cells
    /\ cells[lastOp.key].value = lastOp.input
    /\ CommitWoundUp

\* C11 amended: as above, but the value stored is the entry of the local
\* table of common terms when it has one for the input, and the input
\* otherwise.
C11_FailedTranslationFallsBack ==
  FailedTranslationCommitted =>
    /\ lastOp.key \in DOMAIN cells
    /\ cells[lastOp.key].value = TableTermOrInput(lastOp.input, lastOp.mode.targetLang)
    /\ CommitWoundUp

\* The request for "7" failed and "7" was stored
C11_FailedRequestWitness ==
  /\ FailedTranslationCommitted
  /\ lastOp.input = <<"7">>
  /\ cells[lastOp.key].value = <<"7">>
  /\ pending = {}

(***************************************************************************)
(* Keyboard: handleKeyPress (on the cell input and on the value input of   *)
(* the toolbar) and handleKeyDown (on the container, which every key event *)
(* bubbles to; it sees the state of the render the event started in)       *)
(***************************************************************************)
\* cells[k]?.value || ''
RawValue(grid, k) ==
  IF k \in DOMAIN grid /\ grid[k].value # <<>> THEN grid[k].value ELSE <<>>

\* s.match(/[A-Z]+/) is not null
HasUpper(s) == \E p \in 1..Len(s) : IsUpper(s[p])

\* cellKey.match(/^([A-Z]+)(\d+)$/) is not null
WellFormedKey(k) ==
  /\ UpperRunEnd(k, 1) > 1
  /\ UpperRunEnd(k, 1) <= Len(k)
  /\ DigitRunEnd(k, UpperRunEnd(k, 1)) > Len(k)

\* handleKeyPress, Tab: the cell startEditingCell is called with, NoCell
\* when there is none
NextCellInRow(k) ==
  IF WellFormedKey(k) /\ (CharCodeAt0(k) - 65) + 1 < cols
  THEN <<FromCharCode(65 + (CharCodeAt0(k) - 65) + 1)>>
       \o SubSeq(k, UpperRunEnd(k, 1), Len(k))
  ELSE NoCell

\* handleKeyDown: newCell for an arrow key, from col, row and colIndex
ArrowFrom(dir, col, row, colIndex) ==
  CASE dir = "ArrowUp" ->
         IF row > 1 THEN col \o NatToString(row - 1) ELSE selectedCell
    [] dir = "ArrowDown" ->
         IF row < rows THEN col \o NatToString(row + 1) ELSE selectedCell
    [] dir = "ArrowLeft" ->
         IF colIndex > 0
         THEN <<FromCharCode(65 + colIndex - 1)>> \o NatToString(row)
         ELSE selectedCell
    [] dir = "ArrowRight" ->
         IF colIndex < cols - 1
         THEN <<FromCharCode(65 + colIndex + 1)>> \o NatToString(row)
         ELSE selectedCell

ArrowTarget(dir) ==
  ArrowFrom(dir, FirstUpperRun(selectedCell), ParseInt(FirstDigitRun(selectedCell)),
            CharCodeAt0(FirstUpperRun(selectedCell)) - 65)

\* handleKeyDown moves although a cell is under edit
ArrowMovesWhileEditing(dir) ==
  IF ~HasUpper(selectedCell)
  THEN uncaught' = TRUE /\ UNCHANGED selectedCell
  ELSE selectedCell' = ArrowTarget(dir) /\ UNCHANGED uncaught

\* handleKeyDown for an arrow key: selectedCell.match(...)![0] throws a
\* TypeError when the selected key has no capital
ArrowMoves(dir) ==
  IF editingCell # NoCell THEN UNCHANGED <<selectedCell, uncaught>>
  ELSE IF ~HasUpper(selectedCell)
  THEN uncaught' = TRUE /\ UNCHANGED selectedCell
  ELSE selectedCell' = ArrowTarget(dir) /\ UNCHANGED uncaught

Arrows == {"ArrowUp", "ArrowDown", "ArrowLeft", "ArrowRight"}

\* An arrow key, wherever the focus is
ArrowKey(dir) ==
  /\ pc = "ready"
  /\ ArrowMoves(dir)
  /\ lastOp' = [op |-> "arrow", dir |-> dir]
  /\ UNCHANGED <<pc, gridVars, editingCell, editValue, modeVars, sizeVars, appVars,
                 pending, nOps, bootKind, sinceClear>>

\* Enter with the focus on the grid and no cell under edit: handleKeyDown
\* puts the selected cell under edit
EnterOnGrid ==
  /\ pc = "ready"
  /\ editingCell = NoCell
  /\ IF ~HasUpper(selectedCell)
     THEN uncaught' = TRUE /\ UNCHANGED <<editingCell, editValue>>
     ELSE /\ editingCell' = selectedCell
          /\ editValue' = RawValue(cells, selectedCell)
          /\ UNCHANGED uncaught
  /\ lastOp' = [op |-> "enter"]
  /\ UNCHANGED <<pc, gridVars, selectedCell, modeVars, sizeVars, appVars,
                 pending, nOps, bootKind, sinceClear>>

\* Escape in an input: handleKeyPress drops the edit
EscapeKey ==
  /\ pc = "ready"
  /\ editingCell' = NoCell
  /\ editValue' = <<>>
  /\ uncaught' = (uncaught \/ (editingCell = NoCell /\ ~HasUpper(selectedCell)))
  /\ lastOp' = [op |-> "escape"]
  /\ UNCHANGED <<pc, gridVars, selectedCell, modeVars, sizeVars, appVars,
                 pending, nOps, bootKind, sinceClear>>

\* onChange of an input: setEditValue
TypeInput(v) ==
  /\ pc = "ready"
  /\ editValue' = v
  /\ lastOp' = [op |-> "type"]
  /\ UNCHANGED <<pc, gridVars, selectedCell, editingCell, modeVars, sizeVars, appVars,
                 pending, nOps, bootKind, sinceClear, uncaught>>

\* The cell handleKeyPress is bound to: the cell of the cell input, or the
\* selected cell for the value input of the toolbar
InputTargets == {selectedCell} \cup ({editingCell} \ {NoCell})

\* After an awaiting commit from Enter: handleKeyDown has put the selected
\* cell under edit when none was
EnterCursorAwait ==
  IF editingCell = NoCell
  THEN editingCell' = selectedCell /\ editValue' = RawValue(cells, selectedCell)
  ELSE UNCHANGED <<editingCell, editValue>>

\* handleKeyPress, Enter: handleCellEdit(cellKey, editValue)
KeyPressEnter(cellKey) ==
  /\ pc = "ready" /\ nOps < MaxOps
  /\ cellKey \in InputTargets
  /\ \/ /\ CommitNowGrid(cellKey, editValue, "enter")
        /\ CommitNowCursor(cellKey, editValue)
     \/ /\ CommitAwaitGrid(cellKey, editValue, "enter")
        /\ EnterCursorAwait
  /\ UNCHANGED selectedCell
  /\ CommitFrame

\* startEditingCell(next), when there is a next cell
StartEditingNext(next) ==
  IF next # NoCell
  THEN /\ selectedCell' = next
       /\ editingCell' = next
       /\ editValue' = RawValue(cells, next)
  ELSE UNCHANGED uiVars

\* startEditingCell(next), then the rest of handleCellEdit
EditNextThenWindUp(cellKey, next) ==
  IF CommitThrows(cellKey, editValue)
  THEN StartEditingNext(next)
  ELSE /\ selectedCell' = (IF next # NoCell THEN next ELSE selectedCell)
       /\ editingCell' = NoCell
       /\ editValue' = <<>>

\* How a commit from Tab is recorded: whether the cell was under edit
TabVia(cellKey) == IF editingCell = cellKey THEN "tabEditing" ELSE "tab"

\* handleKeyPress, Tab: handleCellEdit(cellKey, editValue), not awaited,
\* then startEditingCell on the next cell of the row; the rest of
\* handleCellEdit runs after that
KeyPressTab(cellKey) ==
  /\ pc = "ready" /\ nOps < MaxOps
  /\ cellKey \in InputTargets
  /\ \/ /\ CommitNowGrid(cellKey, editValue, TabVia(cellKey))
        /\ EditNextThenWindUp(cellKey, NextCellInRow(cellKey))
     \/ /\ CommitAwaitGrid(cellKey, editValue, TabVia(cellKey))
        /\ StartEditingNext(NextCellInRow(cellKey))
  /\ CommitFrame

\* onBlur of the cell input: handleCellEdit(cellKey, editValue)
InputBlur ==
  /\ pc = "ready" /\ nOps < MaxOps
  /\ editingCell # NoCell
  /\ \/ /\ CommitNowGrid(editingCell, editValue, "blur")
        /\ CommitNowCursor(editingCell, editValue)
     \/ /\ CommitAwaitGrid(editingCell, editValue, "blur")
        /\ UNCHANGED <<editingCell, editValue>>
  /\ UNCHANGED selectedCell
  /\ CommitFrame

(***************************************************************************)
(* The editing specification: a grid of one row and two columns (as after  *)
(* set-rows 1 and set-columns 2), clicks, keys and commits                 *)
(***************************************************************************)
EditKeys == {A1, B1}

EditInputs == {<<"7">>, OneOverZero}

InitEdit == InitSized({NullItem}, 1, 2)

NextEdit ==
  \/ Mount
  \/ \E k \in EditKeys : HandleCellClick(k)
  \/ \E d \in Arrows : ArrowKey(d)
  \/ EnterOnGrid
  \/ EscapeKey
  \/ \E v \in EditInputs : TypeInput(v)
  \/ \E k \in InputTargets : KeyPressEnter(k)
  \/ \E k \in InputTargets : KeyPressTab(k)
  \/ InputBlur
  \/ TranslationReturns

SpecEdit == InitEdit /\ [][NextEdit]_vars

(***************************************************************************)
(* Grid size: handleAddRow, handleAddColumn, handleSetRows, handleSetCols  *)
(***************************************************************************)
\* The model stops adding rows and columns at these sizes
MaxRows == 3

MaxCols == 27

ResizeFrame ==
  /\ pc = "ready"
  /\ lastOp' = [op |-> "resize"]
  /\ UNCHANGED <<pc, gridVars, uiVars, modeVars, pending, nOps,
                 bootKind, sinceClear, uncaught, appVars>>

\* setRows(prev => prev + 1)
HandleAddRow ==
  /\ rows < MaxRows
  /\ rows' = rows + 1
  /\ UNCHANGED cols
  /\ ResizeFrame

\* setCols(prev => prev + 1)
HandleAddColumn ==
  /\ cols < MaxCols
  /\ cols' = cols + 1
  /\ UNCHANGED rows
  /\ ResizeFrame

HandleSetRows(newRows) ==
  /\ rows' = (IF newRows > 0 /\ newRows <= 100 THEN newRows ELSE rows)
  /\ UNCHANGED cols
  /\ ResizeFrame

HandleSetCols(newCols) ==
  /\ cols' = (IF newCols > 0 /\ newCols <= 26 THEN newCols ELSE cols)
  /\ UNCHANGED rows
  /\ ResizeFrame

\* The grid renders the cell of this key
Rendered(k) ==
  \E col \in 0..(cols - 1) : \E row \in 1..rows : k = CellKeyOf(col, row)

(***************************************************************************)
(* The navigation specification: a grid of two rows and twenty-six         *)
(* columns (as after set-rows 2 and set-columns 26), resized and walked    *)
(* with the keys                                                           *)
(***************************************************************************)
NavKeys == {A1, <<"Z", "2">>}

InitNav == InitSized({NullItem}, 2, 26)

NextNav ==
  \/ Mount
  \/ \E k \in NavKeys : Rendered(k) /\ HandleCellClick(k)
  \/ \E d \in Arrows : ArrowKey(d)
  \/ EnterOnGrid
  \/ EscapeKey
  \/ HandleAddRow
  \/ HandleAddColumn
  \/ \E n \in {0, 1, 2, 101} : HandleSetRows(n)
  \/ \E n \in {0, 26, 27} : HandleSetCols(n)

SpecNav == InitNav /\ [][NextNav]_vars

(***************************************************************************)
(* Properties of the keyboard                                              *)
(***************************************************************************)
\* An arrow key was pressed while a cell was under edit
ArrowWhileEditing ==
  /\ lastOp'.op = "arrow"
  /\ editingCell # NoCell

\* C14: there is one edit cursor, so at most one cell is under edit; a cell
\* under edit is always the selected cell; and an arrow key pressed while a
\* cell is under edit leaves the selection where it is.
C14_EditedCellIsSelected ==
  /\ [](editingCell # NoCell => editingCell = selectedCell)
  /\ [][ArrowWhileEditing => selectedCell' = selectedCell]_vars

\* An arrow key was pressed with B1 under edit and B1 is still selected and
\* under edit
C14_ArrowWhileEditingWitness ==
  /\ lastOp.op = "arrow"
  /\ lastOp.dir = "ArrowLeft"
  /\ editingCell = B1
  /\ selectedCell = B1

\* The commit of a Tab pressed while its cell was under edit completes, with
\* nothing else having happened since the key: in the step of the key itself
\* or, for a literal that waited for its translation, in the step right
\* after it
TabCommitCompletes ==
  /\ lastOp'.op = "commit"
  /\ lastOp'.via = "tabEditing"
  /\ \/ nOps' # nOps
     \/ /\ lastOp.op = "issue"
        /\ lastOp.via = "tabEditing"
        /\ lastOp.key = lastOp'.key
        /\ Cardinality(pending) = 1

\* Where Tab is to leave the cursor: on the next cell of the row, under edit
\* with its raw value in the buffer, or where it was at the last column
TabLeavesCursorOn(next) ==
  IF next # NoCell
  THEN /\ selectedCell' = next
       /\ editingCell' = next
       /\ editValue' = RawValue(cells', next)
  ELSE selectedCell' = selectedCell

\* C13: when the commit started by Tab in the cell under edit has completed,
\* the selection is on the next cell of the row, that cell is under edit and
\* the buffer holds its raw value; at the last column the selection stays.
C13_TabEditsNextCell ==
  [][TabCommitCompletes => TabLeavesCursorOn(NextCellInRow(lastOp'.key))]_vars

\* The key of the cell in column c (from 1) of row r
KeyAt(c, r) == <<CodeChars[c]>> \o NatToString(r)

\* Where an arrow key takes the cell in column c of row r: one cell on, or
\* nowhere at an edge of the grid
ArrowStep(dir, c, r) ==
  CASE dir = "ArrowUp" -> KeyAt(c, IF r > 1 THEN r - 1 ELSE r)
    [] dir = "ArrowDown" -> KeyAt(c, IF r < rows THEN r + 1 ELSE r)
    [] dir = "ArrowLeft" -> KeyAt(IF c > 1 THEN c - 1 ELSE c, r)
    [] dir = "ArrowRight" -> KeyAt(IF c < cols THEN c + 1 ELSE c, r)

\* C12: with no cell under edit and the selection on a cell of the grid, an
\* arrow key moves the selection to the neighbouring cell in its direction,
\* or leaves it where it is at an edge; it never wraps or leaves the grid.
C12_ArrowMovesOneCell ==
  [][\A c \in 1..cols : \A r \in 1..rows :
       (/\ lastOp'.op = "arrow"
        /\ editingCell = NoCell
        /\ selectedCell = KeyAt(c, r))
       => selectedCell' = ArrowStep(lastOp'.dir, c, r)]_vars

(***************************************************************************)
(* FormService: form definitions, validateForm, hasDuplicateSubmission,    *)
(* saveDraft, deleteDraft, submitForm.  Form data is an object: a function *)
(* from field ids to JavaScript values.                                    *)
(***************************************************************************)
\* data[id]
FieldOf(data, id) == IF id \in DOMAIN data THEN data[id] ELSE Undefined

RequiredRule(message) == [type |-> "required", message |-> message]

MinRule(value, message) == [type |-> "min", value |-> value, message |-> message]

FormField(id, type, validation, translatable) ==
  [id |-> id, type |-> type, validation |-> validation,
   translatable |-> translatable]

\* A required number field that cannot be negative
CountField(id, requiredMessage) ==
  FormField(id, "number",
            <<RequiredRule(requiredMessage), MinRule(0, "Cannot be negative")>>,
            FALSE)

\* The year field of the quarterly and of the schools form
YearField ==
  FormField("year", "number",
            <<RequiredRule("Year is required"),
              MinRule(2020, "Year must be 2020 or later")>>,
            FALSE)

\* A text area shown in both languages
TranslatableArea(id) == FormField(id, "textarea", <<>>, TRUE)

SafeHomesMonthly ==
  [id |-> "safe-homes-monthly", version |-> 1,
   fields |-> <<
     FormField("reporting_period", "date",
               <<RequiredRule("Reporting period is required")>>, FALSE),
     CountField("families_served", "Number of families is required"),
     CountField("children_served", "Number of children is required"),
     CountField("emergency_placements", "Emergency placements is required"),
     CountField("total_bed_nights", "Total bed nights is required"),
     TranslatableArea("program_description"),
     TranslatableArea("challenges_faced"),
     TranslatableArea("notes") >>]

PreventionQuarterly ==
  [id |-> "prevention-quarterly", version |-> 1,
   fields |-> <<
     FormField("quarter", "select", <<RequiredRule("Quarter is required")>>, FALSE),
     YearField,
     CountField("workshops_conducted", "Number of workshops is required"),
     CountField("participants_total", "Total participants is required"),
     CountField("participants_adults", "Adult participants is required"),
     CountField("participants_children", "Child participants is required"),
     TranslatableArea("workshop_topics"),
     TranslatableArea("feedback_summary") >>]

SchoolsMonthly ==
  [id |-> "schools-monthly", version |-> 1,
   fields |-> <<
     FormField("month", "select", <<RequiredRule("Month is required")>>, FALSE),
     YearField,
     CountField("schools_visited", "Number of schools is required"),
     CountField("students_reached", "Students reached is required"),
     CountField("teachers_trained", "Teachers trained is required") >>]

FormDefinitions == <<SafeHomesMonthly, PreventionQuarterly, SchoolsMonthly>>

\* getFormById found nothing: null
NoForm == [id |-> "null"]

GetFormById(formId) ==
  IF \E i \in 1..Len(FormDefinitions) : FormDefinitions[i].id = formId
  THEN FormDefinitions[CHOOSE i \in 1..Len(FormDefinitions) :
                         FormDefinitions[i].id = formId]
  ELSE NoForm

\* x < y for numbers; a comparison with NaN is false
NumLess(x, y) ==
  IF x.d # 0 /\ y.d # 0 THEN x.n * y.d < y.n * x.d
  ELSE /\ ~(x.d = 0 /\ x.n = 0)
       /\ ~(y.d = 0 /\ y.n = 0)
       /\ \/ (x.d = 0 /\ x.n < 0 /\ ~(y.d = 0 /\ y.n < 0))
          \/ (y.d = 0 /\ y.n > 0 /\ ~(x.d = 0 /\ x.n > 0))

\* validateForm: the rule rejects the value
RuleFails(rule, value) ==
  CASE rule.type = "required" ->
         ~Truthy(value) \/ (value.t = "str" /\ Trim(value.s) = <<>>)
    [] rule.type = "min" ->
         value.t = "num" /\ NumLess(value, IntNum(rule.value))
    [] OTHER -> FALSE

\* fieldErrors of a field: the messages of the rules that reject its value
FieldErrors(field, value) ==
  SelectSeq([i \in 1..Len(field.validation) |->
               IF RuleFails(field.validation[i], value)
               THEN field.validation[i].message ELSE ""],
            LAMBDA m : m # "")

\* parseInt(v) || 0 for a number or a string
ParseIntOrZero(v) ==
  CASE v.t = "num" /\ IsFinite(v) ->
         (IF v.n < 0 THEN 0 - ((0 - v.n) \div v.d) ELSE v.n \div v.d)
    [] v.t = "str" /\ DigitRunEnd(TrimStart(v.s), 1) > 1 ->
         ParseInt(SubSeq(TrimStart(v.s), 1, DigitRunEnd(TrimStart(v.s), 1) - 1))
    [] OTHER -> 0

\* The form-level rules: the messages of the validators that reject the data
FormRuleErrors(form, data) ==
  IF form.id = "safe-homes-monthly"
  THEN (IF ParseIntOrZero(FieldOf(data, "children_served"))
             <= ParseIntOrZero(FieldOf(data, "families_served")) * 6
        THEN <<>>
        ELSE <<"Children served should not exceed families served x 6">>)
  ELSE IF form.id = "prevention-quarterly"
  THEN (IF ParseIntOrZero(FieldOf(data, "participants_adults"))
             + ParseIntOrZero(FieldOf(data, "participants_children"))
           = ParseIntOrZero(FieldOf(data, "participants_total"))
        THEN <<>>
        ELSE <<"Adult and child participants must equal total participants">>)
  ELSE <<>>

\* The ids of the fields with errors
FieldsInError(form, data) ==
  {form.fields[i].id : i \in {j \in 1..Len(form.fields) :
      FieldErrors(form.fields[j], FieldOf(data, form.fields[j].id)) # <<>>}}

FieldOfForm(form, id) ==
  form.fields[CHOOSE i \in 1..Len(form.fields) : form.fields[i].id = id]

\* validateForm(form, data).errors: an object from field ids, and "form",
\* to their messages
ValidationErrors(form, data) ==
  [k \in FieldsInError(form, data)
         \cup (IF FormRuleErrors(form, data) # <<>> THEN {"form"} ELSE {}) |->
     IF k = "form" THEN FormRuleErrors(form, data)
     ELSE FieldErrors(FieldOfForm(form, k), FieldOf(data, k))]

ValidationResult(errors) == [isValid |-> DOMAIN errors = {}, errors |-> errors]

\* validateForm(form, data)
ValidateForm(form, data) == ValidationResult(ValidationErrors(form, data))

\* a === b
StrictEquals(a, b) == a = b /\ a # NaN

\* obj[key] = val
ObjectPut(obj, key, val) ==
  [k \in DOMAIN obj \cup {key} |-> IF k = key THEN val ELSE obj[k]]

\* delete obj[key]
ObjectDelete(obj, key) == [k \in DOMAIN obj \ {key} |-> obj[k]]

\* JSON.parse(JSON.stringify(data)) of form data: a key whose value is
\* undefined is dropped, a number that is not finite becomes null
StoredData(data) ==
  [k \in {f \in DOMAIN data : data[f] # Undefined} |-> JsonValue(data[k])]

\* `${formId}_${user.id}_${Date.now()}`
RecordId(formId, userId, time) == <<formId, userId, time>>

\* hasDuplicateSubmission: the callback of some(), for the data submitted
\* and the data of a stored submission
SamePeriod(data, stored) ==
  IF Truthy(FieldOf(data, "reporting_period"))
     /\ Truthy(FieldOf(stored, "reporting_period"))
  THEN StrictEquals(FieldOf(data, "reporting_period"),
                    FieldOf(stored, "reporting_period"))
  ELSE IF /\ Truthy(FieldOf(data, "month")) /\ Truthy(FieldOf(data, "year"))
          /\ Truthy(FieldOf(stored, "month")) /\ Truthy(FieldOf(stored, "year"))
  THEN /\ StrictEquals(FieldOf(data, "month"), FieldOf(stored, "month"))
       /\ StrictEquals(FieldOf(data, "year"), FieldOf(stored, "year"))
  ELSE IF /\ Truthy(FieldOf(data, "quarter")) /\ Truthy(FieldOf(data, "year"))
          /\ Truthy(FieldOf(stored, "quarter")) /\ Truthy(FieldOf(stored, "year"))
  THEN /\ StrictEquals(FieldOf(data, "quarter"), FieldOf(stored, "quarter"))
       /\ StrictEquals(FieldOf(data, "year"), FieldOf(stored, "year"))
  ELSE FALSE

\* hasDuplicateSubmission finds nothing
NoDuplicateCheck(stored, user, formId, data) == FALSE

\* hasDuplicateSubmission(formId, data), with the stored submissions
HasDuplicateSubmission(stored, user, formId, data) ==
  /\ user # NoUser
  /\ \E id \in DOMAIN stored :
       /\ stored[id].userId = user
       /\ stored[id].formId = formId
       /\ stored[id].status = "submitted"
       /\ SamePeriod(data, stored[id].data)

\* An exception thrown by a service method
Thrown(message) == [threw |-> TRUE, message |-> message]

DuplicateErrors ==
  [k \in {"form"} |-> <<"A similar submission already exists for this period">>]

\* What submitForm returns after validateForm
SubmitValidated(validation, stored, user, formId, data) ==
  IF ~validation.isValid
  THEN [threw |-> FALSE, success |-> FALSE, errors |-> validation.errors]
  ELSE IF HasDuplicateSubmission(stored, user, formId, data)
  THEN [threw |-> FALSE, success |-> FALSE, errors |-> DuplicateErrors]
  ELSE [threw |-> FALSE, success |-> TRUE]

\* What submitForm returns or throws
SubmitOutcome(stored, user, formId, data) ==
  IF user = NoUser THEN Thrown("User not authenticated")
  ELSE IF GetFormById(formId) = NoForm THEN Thrown("Form not found")
  ELSE SubmitValidated(ValidateForm(GetFormById(formId), data),
                       stored, user, formId, data)

\* The submission submitForm stores, as it reads after JSON
NewSubmission(user, formId, data, primaryLanguage) ==
  [id |-> RecordId(formId, user, now), formId |-> formId, userId |-> user,
   status |-> "submitted", data |-> StoredData(data),
   primaryLanguage |-> primaryLanguage,
   createdAt |-> now, updatedAt |-> now, submittedAt |-> now,
   version |-> GetFormById(formId).version]

\* draftId is undefined
NoDraft == <<>>

\* submitForm, from what it returns or throws
SubmitFormWith(outcome, formId, data, primaryLanguage, draftId) ==
  /\ IF ~outcome.threw /\ outcome.success
     THEN /\ submissions' =
               ObjectPut(submissions, RecordId(formId, currentUser, now),
                         NewSubmission(currentUser, formId, data, primaryLanguage))
          /\ drafts' = (IF draftId # NoDraft THEN ObjectDelete(drafts, draftId)
                        ELSE drafts)
     ELSE UNCHANGED <<submissions, drafts>>
  /\ lastOp' = [op |-> "submitForm", formId |-> formId, data |-> data,
                user |-> currentUser, draftId |-> draftId, result |-> outcome]

\* submitForm(formId, data, primaryLanguage, draftId)
SubmitForm(formId, data, primaryLanguage, draftId) ==
  SubmitFormWith(SubmitOutcome(submissions, currentUser, formId, data),
                 formId, data, primaryLanguage, draftId)

\* saveDraft(formId, data, primaryLanguage)
SaveDraft(formId, data, primaryLanguage) ==
  /\ IF currentUser = NoUser
     THEN /\ UNCHANGED drafts
          /\ lastOp' = [op |-> "saveDraft", formId |-> formId, data |-> data,
                        user |-> currentUser,
                        result |-> Thrown("User not authenticated")]
     ELSE /\ drafts' =
               ObjectPut(drafts, RecordId(formId, currentUser, now),
                         [id |-> RecordId(formId, currentUser, now),
                          formId |-> formId, userId |-> currentUser,
                          status |-> "draft", data |-> StoredData(data),
                          primaryLanguage |-> primaryLanguage, version |-> 1])
          /\ lastOp' = [op |-> "saveDraft", formId |-> formId, data |-> data,
                        user |-> currentUser,
                        result |-> [threw |-> FALSE,
                                    draftId |-> RecordId(formId, currentUser, now)]]
  /\ UNCHANGED submissions

\* deleteDraft(draftId)
DeleteDraft(draftId) ==
  /\ drafts' = ObjectDelete(drafts, draftId)
  /\ lastOp' = [op |-> "deleteDraft", draftId |-> draftId]
  /\ UNCHANGED submissions

(***************************************************************************)
(* The forms specification: users log in and out, time passes, and the     *)
(* form service is called with data as the form editor builds it (numbers  *)
(* for number fields, '' for a cleared field, strings otherwise)           *)
(***************************************************************************)
\* Calls of the form service per run
MaxFormOps == 2

\* The model stops the clock here
MaxClock == 1

\* The ids of two of the mock users
Users == {"1", "2"}

FirstPeriod == <<"2", "0", "2", "4", "-", "0", "1", "-", "1", "5">>

SecondPeriod == <<"2", "0", "2", "4", "-", "0", "2", "-", "1", "5">>

January == <<"J", "a", "n", "u", "a", "r", "y">>

FirstQuarter == <<"Q", "1">>

SafeHomesData(period, placements) ==
  ("reporting_period" :> Str(period)) @@ ("families_served" :> IntNum(2))
  @@ ("children_served" :> IntNum(3)) @@ ("emergency_placements" :> placements)
  @@ ("total_bed_nights" :> IntNum(4))

SchoolsData(month, year) ==
  ("month" :> Str(month)) @@ ("year" :> IntNum(year))
  @@ ("schools_visited" :> IntNum(2)) @@ ("students_reached" :> IntNum(9))
  @@ ("teachers_trained" :> IntNum(1))

PreventionData(quarter, year, total) ==
  ("quarter" :> Str(quarter)) @@ ("year" :> IntNum(year))
  @@ ("workshops_conducted" :> IntNum(1)) @@ ("participants_total" :> IntNum(total))
  @@ ("participants_adults" :> IntNum(3)) @@ ("participants_children" :> IntNum(2))

\* The calls made: a form id and the data
FormInputs ==
  { <<"safe-homes-monthly", SafeHomesData(FirstPeriod, IntNum(2))>>,
    <<"safe-homes-monthly", SafeHomesData(FirstPeriod, Str(<<>>))>>,
    <<"safe-homes-monthly", SafeHomesData(SecondPeriod, IntNum(2))>>,
    <<"schools-monthly", SchoolsData(January, 2024)>>,
    <<"schools-monthly", SchoolsData(January, 2025)>>,
    <<"prevention-quarterly", PreventionData(FirstQuarter, 2024, 5)>>,
    <<"no-such-form", EmptyObject>> }

\* A call of the form service, counted
FormCallFrame ==
  /\ nOps < MaxFormOps
  /\ nOps' = nOps + 1
  /\ UNCHANGED <<sheetVars, storeVars, currentUser, userStorage, now>>

\* mockUsers
MockUsers ==
  { [id |-> "1", username |-> "safe_homes_user",
     department |-> "safe-homes", role |-> "user"],
    [id |-> "2", username |-> "prevention_user",
     department |-> "prevention", role |-> "user"],
    [id |-> "3", username |-> "schools_user",
     department |-> "schools", role |-> "user"],
    [id |-> "4", username |-> "outreach_user",
     department |-> "outreach", role |-> "user"],
    [id |-> "5", username |-> "admin_user",
     department |-> "admin", role |-> "admin"] }

\* mockUsers.find(u => u.username === username) finds a user
KnownUsername(username) == \E u \in MockUsers : u.username = username

\* The user found
UserNamed(username) == CHOOSE u \in MockUsers : u.username = username

\* The mock user of an id
UserById(id) == CHOOSE u \in MockUsers : u.id = id

\* The password check that accepts every password
AnyPassword(password) == TRUE

\* The mock password validation of login
PasswordOk(password) == password = "password123"

\* JSON.stringify(this.currentUser) of saveUserToStorage
UserJson(user) == [kind |-> "json", obj |-> user]

\* this.currentUser after loadUserFromStorage() found the item; the session
\* is the id of its user
LoadedUser(item) ==
  IF item = NullItem \/ JsonParse(item) = Throw THEN NoUser
  ELSE JsonParse(item).id

\* The item after loadUserFromStorage(): a text that is not JSON is removed
LoadedItem(item) ==
  IF item # NullItem /\ JsonParse(item) = Throw THEN NullItem ELSE item

\* A call of the auth service, which leaves everything else alone
AuthCallFrame ==
  UNCHANGED <<sheetVars, storeVars, nOps, submissions, drafts, now, editor>>

\* login(username, password)
LoginWith(username, password) ==
  /\ IF KnownUsername(username) /\ PasswordOk(password)
     THEN /\ currentUser' = UserNamed(username).id
          /\ userStorage' = UserJson(UserNamed(username))
          /\ lastOp' = [op |-> "login", username |-> username,
                        password |-> password,
                        result |-> [success |-> TRUE]]
     ELSE /\ UNCHANGED <<currentUser, userStorage>>
          /\ lastOp' = [op |-> "login", username |-> username,
                        password |-> password,
                        result |->
                          [success |-> FALSE,
                           error |-> "Invalid username or password"]]
  /\ AuthCallFrame

\* login(username, password) with the name of the mock user of this id and
\* the password
Login(u) == LoginWith(UserById(u).username, "password123")

\* authService.logout()
Logout ==
  /\ currentUser' = NoUser
  /\ userStorage' = NullItem
  /\ lastOp' = [op |-> "logout"]
  /\ AuthCallFrame

\* isAuthenticated()
IsAuthenticated == currentUser # NoUser

\* A millisecond passes
Tick ==
  /\ now < MaxClock
  /\ now' = now + 1
  /\ lastOp' = [op |-> "tick"]
  /\ UNCHANGED <<sheetVars, storeVars, nOps, currentUser, userStorage, submissions, drafts, editor>>

CallSubmitForm(input, draftId) ==
  /\ SubmitForm(input[1], input[2], "en", draftId)
  /\ FormCallFrame
  /\ UNCHANGED editor

CallSaveDraft(input) ==
  /\ SaveDraft(input[1], input[2], "en")
  /\ FormCallFrame
  /\ UNCHANGED editor

CallDeleteDraft(draftId) ==
  /\ DeleteDraft(draftId)
  /\ FormCallFrame
  /\ UNCHANGED editor

InitForms == InitWith({NullItem})

NextForms ==
  \/ \E u \in Users : Login(u)
  \/ Logout
  \/ Tick
  \/ \E input \in FormInputs : CallSubmitForm(input, NoDraft)

SpecForms == InitForms /\ [][NextForms]_vars

(***************************************************************************)
(* MultilingualFormEditor: formData, translatedData and primaryLanguage of *)
(* the component, the translations it has asked for, and its two buttons   *)
(***************************************************************************)
\* The editor as it is first rendered for a form, without a draft
NewEditor(formId) ==
  [shown |-> TRUE, formId |-> formId, draftId |-> NoDraft,
   formData |-> EmptyObject, translatedData |-> EmptyObject,
   primaryLanguage |-> "en", requests |-> {}]

\* draft.translatedData || {}
TranslatedDataOf(draft) ==
  IF "translatedData" \in DOMAIN draft THEN draft.translatedData
  ELSE EmptyObject

\* The editor rendered for a draft, after its effect has loaded the draft
EditorOf(draft) ==
  [shown |-> TRUE, formId |-> draft.formId, draftId |-> draft.id,
   formData |-> draft.data, translatedData |-> TranslatedDataOf(draft),
   primaryLanguage |-> draft.primaryLanguage, requests |-> {}]

\* photos.map(...) of no photos: []
EmptyArray == [t |-> "array", items |-> <<>>]

\* { ...formData, photos: [...] }
EditorData == ObjectPut(editor.formData, "photos", EmptyArray)

\* form.fields.find(f => f.id === fieldId)?.translatable
IsTranslatable(formId, fieldId) ==
  \E i \in 1..Len(GetFormById(formId).fields) :
    /\ GetFormById(formId).fields[i].id = fieldId
    /\ GetFormById(formId).fields[i].translatable

\* handleFieldChange asks for a translation
AsksTranslation(fieldId, value) ==
  /\ IsTranslatable(editor.formId, fieldId)
  /\ value.t = "str"
  /\ Trim(value.s) # <<>>
  /\ editor.primaryLanguage # "en"

\* The parent shows the editor for a form
OpenEditor(formId) ==
  /\ ~editor.shown
  /\ editor' = NewEditor(formId)
  /\ lastOp' = [op |-> "openEditor"]
  /\ UNCHANGED <<sheetVars, storeVars, nOps, currentUser, userStorage, submissions, drafts, now>>

\* handleEditDraft: the parent shows the editor for a draft of the user
OpenDraft(draftId) ==
  /\ ~editor.shown
  /\ currentUser # NoUser
  /\ draftId \in DOMAIN drafts
  /\ drafts[draftId].userId = currentUser
  /\ GetFormById(drafts[draftId].formId) # NoForm
  /\ editor' = EditorOf(drafts[draftId])
  /\ lastOp' = [op |-> "openDraft"]
  /\ UNCHANGED <<sheetVars, storeVars, nOps, currentUser, userStorage, submissions, drafts, now>>

\* onCancel: the parent hides the editor
CancelEditor ==
  /\ editor.shown
  /\ editor' = NoEditor
  /\ lastOp' = [op |-> "cancelEditor"]
  /\ UNCHANGED <<sheetVars, storeVars, nOps, currentUser, userStorage, submissions, drafts, now>>

\* The language select: setPrimaryLanguage
SetPrimaryLanguage(lang) ==
  /\ editor.shown
  /\ editor' = [editor EXCEPT !.primaryLanguage = lang]
  /\ lastOp' = [op |-> "setPrimaryLanguage"]
  /\ UNCHANGED <<sheetVars, storeVars, nOps, currentUser, userStorage, submissions, drafts, now>>

\* handleFieldChange(fieldId, value); handleAutoTranslate runs up to its await
HandleFieldChange(fieldId, value) ==
  /\ editor.shown
  /\ editor' =
       [editor EXCEPT
          !.formData = ObjectPut(@, fieldId, value),
          !.requests =
             IF AsksTranslation(fieldId, value)
             THEN @ \cup {[fieldId |-> fieldId, text |-> value.s,
                           lang |-> editor.primaryLanguage]}
             ELSE @]
  /\ lastOp' = [op |-> "fieldChange", fieldId |-> fieldId]
  /\ UNCHANGED <<sheetVars, storeVars, nOps, currentUser, userStorage, submissions, drafts, now>>

\* result.confidence || 0.7, in tenths
ConfidenceOrDefault(c) == IF c = 0 THEN 7 ELSE c

\* retranslateField: the TranslatedText built from the result of translate
TranslatedText(req, result) ==
  [original |-> req.text, translated |-> result.text,
   originalLanguage |-> req.lang, translatedLanguage |-> "en",
   confidence |-> ConfidenceOrDefault(result.confidence),
   isUserEdited |-> FALSE]

\* handleAutoTranslate after its await, were the result of a request dropped
\* when its field holds another text by then
AutoTranslateReturnsIfCurrent ==
  /\ editor.shown
  /\ \E req \in editor.requests : \E api \in ApiAnswers(req.text, "en") :
       editor' =
         [editor EXCEPT
            !.translatedData =
               IF FieldOf(editor.formData, req.fieldId) = Str(req.text)
               THEN ObjectPut(@, req.fieldId,
                              TranslatedText(req, Translate(req.text, "en", api)))
               ELSE @,
            !.requests = @ \ {req}]
  /\ lastOp' = [op |-> "autoTranslate"]
  /\ UNCHANGED <<sheetVars, storeVars, nOps, currentUser, userStorage,
                 submissions, drafts, now>>

\* handleAutoTranslate after its await: setTranslatedData
AutoTranslateReturns ==
  /\ editor.shown
  /\ \E req \in editor.requests : \E api \in ApiAnswers(req.text, "en") :
       editor' =
         [editor EXCEPT
            !.translatedData =
               ObjectPut(@, req.fieldId,
                         TranslatedText(req, Translate(req.text, "en", api))),
            !.requests = @ \ {req}]
  /\ lastOp' = [op |-> "autoTranslate"]
  /\ UNCHANGED <<sheetVars, storeVars, nOps, currentUser, userStorage, submissions, drafts, now>>

\* handleSaveDraft: saveDraft, then onSave() unless it threw
HandleSaveDraft ==
  /\ editor.shown
  /\ SaveDraft(editor.formId, EditorData, editor.primaryLanguage)
  /\ editor' = (IF currentUser = NoUser THEN editor ELSE NoEditor)
  /\ FormCallFrame

\* What handleSubmit does with the editor after submitForm
AfterSubmit(outcome) ==
  IF ~outcome.threw /\ outcome.success THEN NoEditor ELSE editor

\* handleSubmit: submitForm, then onSave() when it succeeded
HandleSubmit ==
  /\ editor.shown
  /\ SubmitForm(editor.formId, EditorData, editor.primaryLanguage, editor.draftId)
  /\ editor' = AfterSubmit(SubmitOutcome(submissions, currentUser,
                                         editor.formId, EditorData))
  /\ FormCallFrame

(***************************************************************************)
(* The editor specification: a logged-in user fills in the safe homes form *)
(* in Khmer or English and saves or submits it                             *)
(***************************************************************************)
EditorInputs ==
  { <<"emergency_placements", Str(<<>>)>>,
    <<"notes", Str(KhmerHello)>> }

\* A draft of user 1, saved from the editor in an earlier session
EarlierDraft ==
  [id |-> RecordId("safe-homes-monthly", "1", 0),
   formId |-> "safe-homes-monthly", userId |-> "1", status |-> "draft",
   data |-> ObjectPut(SafeHomesData(FirstPeriod, IntNum(1)), "photos", EmptyArray),
   primaryLanguage |-> "km", version |-> 1]

InitEditor ==
  /\ InitSheet({NullItem}, AppRows, AppCols)
  /\ InitAppWith(ObjectPut(EmptyObject, EarlierDraft.id, EarlierDraft), 1)

NextEditor ==
  \/ Login("1")
  \/ OpenEditor("safe-homes-monthly")
  \/ \E d \in DOMAIN drafts : OpenDraft(d)
  \/ CancelEditor
  \/ SetPrimaryLanguage("km")
  \/ \E input \in EditorInputs : HandleFieldChange(input[1], input[2])
  \/ AutoTranslateReturns
  \/ HandleSaveDraft
  \/ HandleSubmit

SpecEditor == InitEditor /\ [][NextEditor]_vars

(***************************************************************************)
(* Properties of the form service                                          *)
(***************************************************************************)
\* The reporting period of the data of a form: the reporting period of the
\* safe homes form, month and year of the schools form, quarter and year of
\* the prevention form
PeriodOf(formId, data) ==
  CASE formId = "safe-homes-monthly" -> <<FieldOf(data, "reporting_period")>>
    [] formId = "schools-monthly" ->
         <<FieldOf(data, "month"), FieldOf(data, "year")>>
    [] formId = "prevention-quarterly" ->
         <<FieldOf(data, "quarter"), FieldOf(data, "year")>>
    [] OTHER -> <<>>

\* No two stored submissions of one user for one form and one period
NoTwoForOnePeriod ==
  \A a \in DOMAIN submissions : \A b \in DOMAIN submissions :
    (/\ submissions[a].userId = submissions[b].userId
     /\ submissions[a].formId = submissions[b].formId
     /\ PeriodOf(submissions[a].formId, submissions[a].data)
          = PeriodOf(submissions[b].formId, submissions[b].data))
    => a = b

\* submitForm is called by a user who has a stored submission for the same
\* form and the same period
DuplicateSubmitted ==
  /\ lastOp'.op = "submitForm"
  /\ \E id \in DOMAIN submissions :
       /\ submissions[id].userId = lastOp'.user
       /\ submissions[id].formId = lastOp'.formId
       /\ PeriodOf(lastOp'.formId, submissions[id].data)
            = PeriodOf(lastOp'.formId, StoredData(lastOp'.data))

\* The call returned success = false and stored nothing
RefusedAndNothingStored ==
  /\ ~lastOp'.result.threw
  /\ ~lastOp'.result.success
  /\ submissions' = submissions

StoredFromEditor ==
  /\ editor.shown
  /\ lastOp'.op \in {"submitForm", "saveDraft"}
  /\ ~lastOp'.result.threw
  /\ lastOp'.op = "submitForm" => lastOp'.result.success

\* The record the step stored
RecordStored ==
  IF lastOp'.op = "submitForm"
  THEN submissions'[RecordId(lastOp'.formId, lastOp'.user, now)]
  ELSE drafts'[RecordId(lastOp'.formId, lastOp'.user, now)]

\* The record holds the original text of the field and its translation
HoldsBoth(record, fieldId, translation) ==
  /\ FieldOf(record.data, fieldId) = Str(translation.original)
  /\ "translatedData" \in DOMAIN record
  /\ fieldId \in DOMAIN record.translatedData
  /\ record.translatedData[fieldId].translated = translation.translated

\* C16: a submission or draft stored from the multilingual form editor
\* holds, for every field the editor has a translation of, the original text
\* and the English translation.
C16_StoredWithTranslations ==
  [][StoredFromEditor =>
       \A f \in DOMAIN editor.translatedData :
         HoldsBoth(RecordStored, f, editor.translatedData[f])]_vars


(***************************************************************************)
(* PhotoSafetyService                                                      *)
(***************************************************************************)
Audiences == {"internal", "CRA", "donors", "community"}

\* The audiences outside the organisation
ExternalAudiences == Audiences \ {"internal"}

\* SAFETY_RULES
SafetyRules(audience) ==
  CASE audience = "CRA" ->
         [allowFaces |-> FALSE, allowMinors |-> FALSE,
          allowPersonalInfo |-> FALSE, requiresApproval |-> TRUE]
    [] audience = "donors" ->
         [allowFaces |-> TRUE, allowMinors |-> FALSE,
          allowPersonalInfo |-> FALSE, requiresApproval |-> TRUE]
    [] audience = "community" ->
         [allowFaces |-> TRUE, allowMinors |-> FALSE,
          allowPersonalInfo |-> FALSE, requiresApproval |-> TRUE]
    [] audience = "internal" ->
         [allowFaces |-> TRUE, allowMinors |-> TRUE,
          allowPersonalInfo |-> TRUE, requiresApproval |-> FALSE]

\* getPhotoMetadata(photoId): stored[photoId] || null
NoMetadata == Null

GetPhotoMetadata(stored, photoId) ==
  IF photoId \in DOMAIN stored THEN stored[photoId] ELSE NoMetadata

\* The callback of restrictions.filter in isPhotoSafeForAudience
RelevantRestriction(restriction, audience) ==
  CASE restriction.type = "no_public_use" -> audience = "community"
    [] restriction.type = "no_donor_reports" -> audience = "donors"
    [] restriction.type = "internal_only" -> audience # "internal"
    [] restriction.type = "consent_required" -> TRUE
    [] OTHER -> FALSE

\* The warnings pushed for each relevant restriction, in order
RECURSIVE RestrictionWarnings(_, _)
RestrictionWarnings(restrictions, audience) ==
  IF restrictions = <<>> THEN <<>>
  ELSE (IF RelevantRestriction(Head(restrictions), audience)
        THEN <<[warning |-> "restriction",
                reason |-> Head(restrictions).reason]>>
        ELSE <<>>)
       \o RestrictionWarnings(Tail(restrictions), audience)

\* The warnings without the check for minors
SafetyWarningsButMinors(metadata, audience) ==
  (IF metadata.containsFaces /\ ~SafetyRules(audience).allowFaces
   THEN <<[warning |-> "faces"]>> ELSE <<>>)
  \o (IF metadata.locationIdentifiable /\ audience # "internal"
      THEN <<[warning |-> "location"]>> ELSE <<>>)
  \o (IF SafetyRules(audience).requiresApproval /\ ~metadata.approved
      THEN <<[warning |-> "approval"]>> ELSE <<>>)
  \o RestrictionWarnings(metadata.restrictions, audience)

\* The warnings isPhotoSafeForAudience collects for a photo with metadata,
\* in order; a warning is its kind and, for a restriction, the reason
SafetyWarnings(metadata, audience) ==
  (IF metadata.containsFaces /\ ~SafetyRules(audience).allowFaces
   THEN <<[warning |-> "faces"]>> ELSE <<>>)
  \o (IF metadata.containsMinors /\ ~SafetyRules(audience).allowMinors
      THEN <<[warning |-> "minors"]>> ELSE <<>>)
  \o (IF metadata.locationIdentifiable /\ audience # "internal"
      THEN <<[warning |-> "location"]>> ELSE <<>>)
  \o (IF SafetyRules(audience).requiresApproval /\ ~metadata.approved
      THEN <<[warning |-> "approval"]>> ELSE <<>>)
  \o RestrictionWarnings(metadata.restrictions, audience)

\* restrictions.some(...) of checkAudienceCompatibility
RECURSIVE HasBlockingRestriction(_, _)
HasBlockingRestriction(restrictions, audience) ==
  /\ restrictions # <<>>
  /\ \/ CASE Head(restrictions).type = "internal_only" ->
               audience # "internal"
          [] Head(restrictions).type = "no_public_use" ->
               audience = "community"
          [] Head(restrictions).type = "no_donor_reports" ->
               audience = "donors"
          [] OTHER -> FALSE
     \/ HasBlockingRestriction(Tail(restrictions), audience)

\* checkAudienceCompatibility(metadata, SAFETY_RULES[audience])
CheckAudienceCompatibility(metadata, audience) ==
  /\ ~(metadata.containsFaces /\ ~SafetyRules(audience).allowFaces)
  /\ ~(metadata.containsMinors /\ ~SafetyRules(audience).allowMinors)
  /\ ~(SafetyRules(audience).requiresApproval /\ ~metadata.approved)
  /\ ~HasBlockingRestriction(metadata.restrictions, audience)

\* The check of a photo with the given warnings
SafetyCheck(metadata, audience, warnings) ==
  [safe |-> Len(warnings) = 0,
   warnings |-> warnings,
   allowedAudiences |->
     {a \in Audiences : CheckAudienceCompatibility(metadata, a)},
   requiresApproval |->
     SafetyRules(audience).requiresApproval /\ ~metadata.approved]

\* isPhotoSafeForAudience(photoId, audience) over the stored metadata; the
\* recommendations, one fixed text for each warning, are left out
IsPhotoSafeForAudience(stored, photoId, audience) ==
  IF GetPhotoMetadata(stored, photoId) = NoMetadata
  THEN [safe |-> FALSE,
        warnings |-> <<[warning |-> "notFound"]>>,
        allowedAudiences |-> {},
        requiresApproval |-> TRUE]
  ELSE SafetyCheck(stored[photoId], audience,
                   SafetyWarnings(stored[photoId], audience))

\* getPhotosForAudience(audience): the stored photos whose check is safe
GetPhotosForAudience(stored, audience) ==
  {stored[id] : id \in
     {k \in DOMAIN stored :
        IsPhotoSafeForAudience(stored, stored[k].id, audience).safe}}

\* The metadata of an upload
PhotoMetadata(id, faces, minors, location) ==
  [id |-> id, containsFaces |-> faces, containsMinors |-> minors,
   locationIdentifiable |-> location, approved |-> FALSE,
   restrictions |-> <<>>]

\* The most restrictions a photo gets
MaxRestrictions == 1

\* A call of the photo safety service, which leaves everything else alone
PhotoCallFrame ==
  UNCHANGED <<sheetVars, nOps, currentUser, userStorage, submissions, drafts, now,
              editor, metricsCache>>

\* savePhotoMetadata(metadata)
SavePhotoMetadata(metadata) ==
  /\ photos' = ObjectPut(photos, metadata.id, metadata)
  /\ lastOp' = [op |-> "savePhotoMetadata", id |-> metadata.id]
  /\ PhotoCallFrame

\* approvePhoto(photoId, approvedBy)
ApprovePhoto(photoId, approvedBy) ==
  /\ IF GetPhotoMetadata(photos, photoId) = NoMetadata
     THEN /\ photos' = photos
          /\ lastOp' = [op |-> "approvePhoto", id |-> photoId,
                        result |-> FALSE]
     ELSE /\ photos' =
               ObjectPut(photos, photoId,
                         [approved |-> TRUE, approvedBy |-> approvedBy,
                          approvedAt |-> now] @@ photos[photoId])
          /\ lastOp' = [op |-> "approvePhoto", id |-> photoId,
                        result |-> TRUE]
  /\ PhotoCallFrame

\* addPhotoRestriction(photoId, restriction)
AddPhotoRestriction(photoId, restriction) ==
  /\ IF GetPhotoMetadata(photos, photoId) = NoMetadata
     THEN /\ photos' = photos
          /\ lastOp' = [op |-> "addPhotoRestriction", id |-> photoId,
                        result |-> FALSE]
     ELSE /\ Len(photos[photoId].restrictions) < MaxRestrictions
          /\ photos' =
               ObjectPut(photos, photoId,
                         [photos[photoId] EXCEPT !.restrictions =
                            Append(@, restriction @@ [addedAt |-> now])])
          /\ lastOp' = [op |-> "addPhotoRestriction", id |-> photoId,
                        result |-> TRUE]
  /\ PhotoCallFrame

\* getPhotosForAudience(audience), its result recorded
CallGetPhotosForAudience(audience) ==
  /\ lastOp' = [op |-> "getPhotosForAudience", audience |-> audience,
                result |-> GetPhotosForAudience(photos, audience)]
  /\ UNCHANGED photos
  /\ PhotoCallFrame

(***************************************************************************)
(* The photo safety service alone                                          *)
(***************************************************************************)
PhotoIds == {"photo_1", "photo_2"}

\* Uploads: children with faces, a street with no one, no one and nowhere
Uploads(id) ==
  { PhotoMetadata(id, TRUE, TRUE, FALSE),
    PhotoMetadata(id, FALSE, FALSE, TRUE),
    PhotoMetadata(id, FALSE, FALSE, FALSE) }

RestrictionInputs ==
  { [type |-> t, reason |-> "asked", addedBy |-> "1"] :
      t \in {"no_donor_reports", "consent_required"} }

InitPhotos == InitWith({NullItem})

NextPhotos ==
  \/ \E id \in PhotoIds : \E m \in Uploads(id) : SavePhotoMetadata(m)
  \/ \E id \in PhotoIds : ApprovePhoto(id, "1")
  \/ \E id \in PhotoIds : \E r \in RestrictionInputs :
       AddPhotoRestriction(id, r)
  \/ \E a \in Audiences : CallGetPhotosForAudience(a)

SpecPhotos == InitPhotos /\ [][NextPhotos]_vars

(***************************************************************************)
(* Properties of the photo safety service                                  *)
(***************************************************************************)
\* No stored photo of minors passes the check for an external audience or is
\* among the photos for one
MinorsNeverSafeOutside ==
  \A id \in DOMAIN photos : \A a \in ExternalAudiences :
    photos[id].containsMinors =>
      /\ ~IsPhotoSafeForAudience(photos, id, a).safe
      /\ photos[id] \notin GetPhotosForAudience(photos, a)

\* getPhotosForAudience was called for an external audience
ExternalPhotosAsked ==
  /\ lastOp'.op = "getPhotosForAudience"
  /\ lastOp'.audience \in ExternalAudiences

\* C19: a photo whose containsMinors flag is true is never safe for CRA,
\* donors or community, whatever approvePhoto and addPhotoRestriction calls
\* were made, and getPhotosForAudience never returns it for those audiences.
C19_MinorsNeverLeave ==
  /\ []MinorsNeverSafeOutside
  /\ [][ExternalPhotosAsked =>
          \A m \in lastOp'.result : ~m.containsMinors]_vars

\* The photos for donors were asked for while an approved photo of minors
\* and an approved photo that is safe for donors were stored, and only the
\* second was returned
C19_ApprovedMinorsWitness ==
  /\ lastOp.op = "getPhotosForAudience"
  /\ lastOp.audience = "donors"
  /\ \E id \in DOMAIN photos :
       photos[id].containsMinors /\ photos[id].approved
  /\ lastOp.result # {}
  /\ lastOp.result = GetPhotosForAudience(photos, "donors")


(***************************************************************************)
(* ExportService                                                           *)
(***************************************************************************)
\* The values of a report's data: the primitives above, and
Obj(fields) == [t |-> "obj", f |-> fields]

Arr(items) == [t |-> "arr", items |-> items]

True == [t |-> "bool", b |-> TRUE]

\* typeof v === 'object' && v !== null
IsObjectOrArray(v) == v.t \in {"obj", "arr"}

\* if (v) of a value of a report
TreeTruthy(v) ==
  CASE IsObjectOrArray(v) -> TRUE
    [] v.t = "bool" -> v.b
    [] OTHER -> Truthy(v)

\* personalFields of removePersonalInfo
PersonalFields == {"name", "address", "phone", "email", "personalId", "ssn"}

\* The fields left by personalFields.forEach: a personal field goes when its
\* value is truthy
KeptFields(fields) ==
  {k \in DOMAIN fields : ~(k \in PersonalFields /\ TreeTruthy(fields[k]))}

\* The fields of an object where no personal field is looked at
AllFields(fields) == DOMAIN fields

\* removePersonalInfo(data), as the value data is left with
RECURSIVE RemovePersonalInfo(_)
RECURSIVE RemoveNested(_)
RemovePersonalInfo(data) ==
  CASE data.t = "obj" ->
         Obj([k \in KeptFields(data.f) |-> RemoveNested(data.f[k])])
    [] data.t = "arr" ->
         Arr([i \in DOMAIN data.items |-> RemoveNested(data.items[i])])
    [] OTHER -> data

\* The callback of Object.keys(data).forEach for the value of one key
RemoveNested(v) ==
  CASE v.t = "arr" ->
         Arr([i \in DOMAIN v.items |-> RemovePersonalInfo(v.items[i])])
    [] v.t = "obj" -> RemovePersonalInfo(v)
    [] OTHER -> v

\* data[key] of an object
Field(data, key) ==
  IF key \in DOMAIN data.f THEN data.f[key] ELSE Undefined

\* a || b
OrElse(a, b) == IF TreeTruthy(a) THEN a ELSE b

\* The data after the anonymizeData branch
Anonymized(data, options) ==
  IF options.anonymizeData THEN RemovePersonalInfo(data) ELSE data

\* processCRAData(data, options), the texts shortened
CraCompliantData(data) ==
  Obj([reportingPeriod |-> Field(data, "reportingPeriod"),
       totalBeneficiaries |-> Field(data, "totalBeneficiaries"),
       programOutcomes |-> Field(data, "programOutcomes"),
       complianceMetrics |-> Field(data, "complianceMetrics"),
       financialSummary |->
         OrElse(Field(data, "financialSummary"), Str(<<"finance">>)),
       geographicReach |->
         OrElse(Field(data, "geographicReach"), Str(<<"multiple">>)),
       disclaimer |-> Str(<<"aggregate">>)])

ProcessCRAData(data, options) == CraCompliantData(Anonymized(data, options))

\* The callback of successStories.forEach for a story that is an object
AnonymizedStory(story) ==
  Obj([k \in (DOMAIN story.f \cup {"personalInfoRemoved"})
              \ {"names", "specificLocations"} |->
         IF k = "personalInfoRemoved" THEN True ELSE story.f[k]])

\* The anonymizeData branch for successStories, an array of objects
AnonymizedStories(data) ==
  IF TreeTruthy(Field(data, "successStories"))
  THEN Obj(ObjectPut(data.f, "successStories",
         Arr([i \in DOMAIN data.f["successStories"].items |->
                AnonymizedStory(data.f["successStories"].items[i])])))
  ELSE data

\* {...data, more}
Spread(data, more) ==
  Obj([k \in DOMAIN data.f \cup DOMAIN more |->
         IF k \in DOMAIN more THEN more[k] ELSE data.f[k]])

\* processDonorData(data, options)
ProcessDonorData(data, options) ==
  Spread(IF options.anonymizeData
         THEN AnonymizedStories(RemovePersonalInfo(data))
         ELSE data,
         [disclaimer |-> Str(<<"removed">>),
          photoPolicy |-> Str(<<"consent">>)])

\* processCommunityData(data, options)
ProcessCommunityData(data, options) ==
  Spread(Anonymized(data, options),
         [disclaimer |-> Str(<<"aggregated">>),
          howToGetInvolved |->
            Obj([volunteer |-> Str(<<"contact">>),
                 donate |-> Str(<<"visit">>),
                 participate |-> Str(<<"join">>)])])

\* JSON.parse(JSON.stringify(data)) of a tree of objects, arrays, strings,
\* finite numbers and null, which is what the report data of the model are
DeepClone(data) == data

\* processDataForAudience(data, options)
ProcessDataForAudience(data, options) ==
  CASE options.audience = "CRA" -> ProcessCRAData(DeepClone(data), options)
    [] options.audience = "donors" ->
         ProcessDonorData(DeepClone(data), options)
    [] options.audience = "community" ->
         ProcessCommunityData(DeepClone(data), options)
    [] OTHER -> DeepClone(data)

\* mockPhotoIds of validatePhotoSafety, in order
MockPhotoIds == <<"photo_1", "photo_2", "photo_3">>

\* validatePhotoSafety(report, audience).checks
PhotoChecks(stored, audience) ==
  [i \in DOMAIN MockPhotoIds |->
     [photoId |-> MockPhotoIds[i],
      safe |-> IsPhotoSafeForAudience(stored, MockPhotoIds[i], audience).safe,
      warnings |->
        IsPhotoSafeForAudience(stored, MockPhotoIds[i], audience).warnings]]

\* validatePhotoSafety(report, audience).warnings: one for each photo that
\* is not safe
RECURSIVE UnsafeWarnings(_)
UnsafeWarnings(checks) ==
  IF checks = <<>> THEN <<>>
  ELSE (IF Head(checks).safe THEN <<>>
        ELSE <<[warning |-> "notSafe", photoId |-> Head(checks).photoId]>>)
       \o UnsafeWarnings(Tail(checks))

\* arePhotosApprovedForAudience(audience)
ArePhotosApprovedForAudience(audience) ==
  audience = "internal" \/ audience = "community"

\* The warnings of exportToExcel, exportToPdf, exportToCsv and exportToJson
FormatWarnings(options) ==
  CASE options.format = "excel" ->
         IF options.includePhotos
         THEN <<[warning |-> "notEmbedded"]>> ELSE <<>>
    [] options.format = "pdf" ->
         IF /\ options.includePhotos
            /\ ~ArePhotosApprovedForAudience(options.audience)
         THEN <<[warning |-> "reviewManually"]>> ELSE <<>>
    [] options.format = "csv" -> <<[warning |-> "notInCsv"]>>
    [] options.format = "json" -> <<>>

Extension(format) ==
  CASE format = "excel" -> "xlsx"
    [] format = "pdf" -> "pdf"
    [] format = "csv" -> "csv"
    [] format = "json" -> "json"

\* new Date().toISOString().split('T')[0] within the first day of the clock,
\* where all the times of the model are
IsoDay(time) == "1970-01-01"

\* The result of exportReport when photos were checked with these checks;
\* exported is the processed data handed to the writer of the format
ExportResult(report, options, checks, time) ==
  [success |-> TRUE,
   filename |-> <<report.title, IsoDay(time), Extension(options.format)>>,
   warnings |-> UnsafeWarnings(checks) \o FormatWarnings(options),
   photoSafetyChecks |-> checks,
   exported |-> ProcessDataForAudience(report.data, options)]

\* exportReport(report, options) over the stored photo metadata
ExportReportResult(stored, report, options, time) ==
  ExportResult(report, options,
               IF options.includePhotos /\ report.includesPhotos
               THEN PhotoChecks(stored, options.audience) ELSE <<>>,
               time)

\* exportReport(report, options), its result recorded
ExportReport(report, options) ==
  /\ lastOp' = [op |-> "exportReport", report |-> report,
                options |-> options,
                result |-> ExportReportResult(photos, report, options, now)]
  /\ UNCHANGED photos
  /\ PhotoCallFrame

(***************************************************************************)
(* Exports over stored photos                                              *)
(***************************************************************************)
Anna == Str(<<"A">>)

\* A quarter's data with a contact inside the outcomes, a list of
\* participants and a success story
CaseData ==
  Obj([reportingPeriod |-> Str(<<"Q", "1">>),
       totalBeneficiaries |-> IntNum(5),
       programOutcomes |->
         Obj([placed |-> IntNum(2),
              contact |-> Obj([name |-> Anna, phone |-> Str(<<>>)])]),
       participants |-> Arr(<<Obj([name |-> Anna, ssn |-> IntNum(0)])>>),
       successStories |->
         Arr(<<Obj([names |-> Anna, story |-> Str(<<"s">>)])>>),
       email |-> Str(<<"e">>)])

\* A quarter's data with counts only
AggregateData ==
  Obj([reportingPeriod |-> Str(<<"Q", "1">>),
       totalBeneficiaries |-> IntNum(5),
       programOutcomes |-> Obj([placed |-> IntNum(2)])])

Reports ==
  [title : {"report"}, includesPhotos : BOOLEAN,
   data : {CaseData, AggregateData}]

ExportOptions ==
  [format : {"pdf", "csv"}, audience : Audiences,
   includePhotos : BOOLEAN, anonymizeData : BOOLEAN]

\* Uploads for the exports: no one and nowhere, and for the first photo
\* children as well
ExportUploads(id) ==
  { PhotoMetadata(id, FALSE, FALSE, FALSE) }
  \cup (IF id = "photo_1" THEN {PhotoMetadata(id, TRUE, TRUE, FALSE)} ELSE {})

ExportPhotoIds == {MockPhotoIds[i] : i \in DOMAIN MockPhotoIds}

InitExport == InitWith({NullItem})

NextExport ==
  \/ \E id \in ExportPhotoIds : \E m \in ExportUploads(id) :
       SavePhotoMetadata(m)
  \/ \E id \in ExportPhotoIds : ApprovePhoto(id, "1")
  \/ \E r \in Reports : \E o \in ExportOptions : ExportReport(r, o)

SpecExport == InitExport /\ [][NextExport]_vars

(***************************************************************************)
(* Properties of the export service                                        *)
(***************************************************************************)
\* exportReport was called for an external audience
ExportedOutside ==
  /\ lastOp'.op = "exportReport"
  /\ lastOp'.options.audience \in ExternalAudiences

\* All the photos of the report pass isPhotoSafeForAudience
AllPhotosSafeFor(audience) ==
  \A i \in DOMAIN MockPhotoIds :
    IsPhotoSafeForAudience(photos, MockPhotoIds[i], audience).safe

\* C17: an export to CRA, donors or community that includes photos never
\* returns success while a photo of the report is not safe for the audience.
C17_NoSuccessWithUnsafePhoto ==
  [][(/\ ExportedOutside
      /\ lastOp'.options.includePhotos
      /\ lastOp'.report.includesPhotos
      /\ lastOp'.result.success)
     => AllPhotosSafeFor(lastOp'.options.audience)]_vars

\* A field with the name of a personal field, at any depth
RECURSIVE HasPersonalField(_)
HasPersonalField(v) ==
  CASE v.t = "obj" ->
         \/ DOMAIN v.f \cap PersonalFields # {}
         \/ \E k \in DOMAIN v.f : HasPersonalField(v.f[k])
    [] v.t = "arr" -> \E i \in DOMAIN v.items : HasPersonalField(v.items[i])
    [] OTHER -> FALSE

\* C18: the data exported for CRA, donors or community has no field named
\* name, address, phone, email, personalId or ssn at any depth.
C18_NoPersonalFieldExported ==
  [][ExportedOutside => ~HasPersonalField(lastOp'.result.exported)]_vars


(***************************************************************************)
(* DashboardService                                                        *)
(***************************************************************************)
\* CACHE_DURATION, in milliseconds
CacheDuration == 5 * 60 * 1000

Departments == {"safe-homes", "prevention", "schools", "outreach", "admin"}

Statuses == {"draft", "submitted", "approved", "rejected"}

\* The department calculateMetrics finds in a form id, for the ids of the
\* form definitions
DepartmentOf(formId) ==
  CASE formId = "safe-homes-monthly" -> "safe-homes"
    [] formId = "prevention-quarterly" -> "prevention"
    [] formId = "schools-monthly" -> "schools"
    [] OTHER -> "admin"

\* new Date(createdAt).toISOString().substring(0, 7) within the first month
\* of the clock, where all the times of the model are
MonthKey(time) == "1970-01"

\* The number of the stored submissions that satisfy a condition
CountOf(ids) == Cardinality(ids)

\* responseTimes.reduce((a, b) => a + b, 0) over the submissions of the ids
RECURSIVE SumResponseTimes(_, _)
SumResponseTimes(stored, ids) ==
  IF ids = {} THEN 0
  ELSE SumResponseTimes(stored, ids \ {CHOOSE id \in ids : TRUE})
       + (stored[CHOOSE id \in ids : TRUE].submittedAt
          - stored[CHOOSE id \in ids : TRUE].createdAt)

\* The ids of the stored submissions with a status
WithStatus(stored, status) ==
  {id \in DOMAIN stored : stored[id].status = status}

\* a / b when b > 0, and 0 otherwise
RatioOrZero(a, b) == IF b > 0 THEN MkNum(a, b) ELSE IntNum(0)

\* calculateMetrics(submissions) at a time
CalculateMetrics(stored, time) ==
  [totalSubmissions |-> CountOf(WithStatus(stored, "submitted")),
   submissionsByDepartment |->
     [d \in Departments |->
        CountOf({id \in DOMAIN stored :
                   DepartmentOf(stored[id].formId) = d})],
   submissionsByMonth |->
     [m \in {MonthKey(stored[id].createdAt) : id \in DOMAIN stored} |->
        CountOf({id \in DOMAIN stored : MonthKey(stored[id].createdAt) = m})],
   submissionsByStatus |->
     [s \in Statuses |-> CountOf(WithStatus(stored, s))],
   averageResponseTime |->
     RatioOrZero(SumResponseTimes(stored, WithStatus(stored, "submitted")),
                 CountOf(WithStatus(stored, "submitted"))),
   completionRate |->
     RatioOrZero(CountOf(WithStatus(stored, "submitted")),
                 CountOf(WithStatus(stored, "draft"))
                 + CountOf(WithStatus(stored, "submitted"))),
   lastUpdated |-> time]

\* The cache answers: it is there and younger than CACHE_DURATION
CacheIsFresh ==
  /\ metricsCache.cached
  /\ now - metricsCache.metrics.lastUpdated < CacheDuration

\* getDashboardMetrics()
GetDashboardMetrics ==
  /\ IF CacheIsFresh
     THEN /\ lastOp' = [op |-> "getDashboardMetrics",
                        result |-> metricsCache.metrics]
          /\ UNCHANGED metricsCache
     ELSE /\ lastOp' = [op |-> "getDashboardMetrics",
                        result |-> CalculateMetrics(submissions, now)]
          /\ metricsCache' =
               [cached |-> TRUE,
                metrics |-> CalculateMetrics(submissions, now)]
  /\ UNCHANGED <<sheetVars, nOps, currentUser, userStorage, submissions, drafts, now,
                 editor, photos>>

\* The cache duration passes, from an early time
Wait ==
  /\ now <= MaxClock
  /\ now' = now + CacheDuration
  /\ lastOp' = [op |-> "wait"]
  /\ UNCHANGED <<sheetVars, storeVars, nOps, currentUser, userStorage, submissions,
                 drafts, editor>>

(***************************************************************************)
(* The dashboard beside the form service                                   *)
(***************************************************************************)
DashboardInputs ==
  { <<"safe-homes-monthly", SafeHomesData(FirstPeriod, IntNum(1))>>,
    <<"schools-monthly", SchoolsData(January, 2024)>> }

InitDashboard == InitWith({NullItem})

NextDashboard ==
  \/ Login("1")
  \/ Tick
  \/ Wait
  \/ \E input \in DashboardInputs : CallSubmitForm(input, NoDraft)
  \/ GetDashboardMetrics

SpecDashboard == InitDashboard /\ [][NextDashboard]_vars

(***************************************************************************)
(* Properties of the dashboard                                             *)
(***************************************************************************)
\* getDashboardMetrics was called with a submission stored
MetricsAskedAfterSubmit ==
  /\ lastOp'.op = "getDashboardMetrics"
  /\ submissions # EmptyObject

\* C20: after a successful submitForm, the next getDashboardMetrics counts
\* the new submission in totalSubmissions and submissionsByStatus.submitted,
\* however soon after the previous getDashboardMetrics it is called: with
\* submissions stored, the two counts are the number stored.
C20_MetricsCountNewSubmission ==
  [][MetricsAskedAfterSubmit =>
       /\ lastOp'.result.totalSubmissions = Cardinality(DOMAIN submissions)
       /\ lastOp'.result.submissionsByStatus["submitted"]
            = Cardinality(DOMAIN submissions)]_vars


(***************************************************************************)
(* The auth service alone                                                  *)
(***************************************************************************)
\* What the constructor can find under "rtc_user": nothing, the session an
\* earlier login left, or a text that is not JSON
StoredSessions == {NullItem, UserJson(UserById("3")), CorruptText}

UsernameInputs ==
  {u.username : u \in MockUsers} \cup {"Admin_User", "nobody"}

PasswordInputs == {"password123", "Password123", "wrong", ""}

\* The services constructed over a stored session and nothing else
InitAuth ==
  /\ InitSheet({NullItem}, AppRows, AppCols)
  /\ \E item \in StoredSessions :
       /\ currentUser = LoadedUser(item)
       /\ userStorage = LoadedItem(item)
  /\ submissions = EmptyObject
  /\ drafts = EmptyObject
  /\ now = 0
  /\ editor = NoEditor
  /\ photos = EmptyObject
  /\ metricsCache = NoCache

NextAuth ==
  \/ \E u \in UsernameInputs : \E p \in PasswordInputs : LoginWith(u, p)
  \/ Logout

SpecAuth == InitAuth /\ [][NextAuth]_vars

(***************************************************************************)
(* Properties of the auth service                                          *)
(***************************************************************************)
\* The usernames of the demo accounts
DemoUsernames ==
  {"safe_homes_user", "prevention_user", "schools_user", "outreach_user",
   "admin_user"}

\* The "rtc_user" entry exists exactly when a user is authenticated
SessionStoredIffAuthenticated ==
  (userStorage # NullItem) <=> IsAuthenticated

\* What a login or logout step leaves behind
AuthStepContract ==
  /\ lastOp'.op = "login" =>
       /\ lastOp'.result.success <=>
            /\ lastOp'.username \in DemoUsernames
            /\ lastOp'.password = "password123"
       /\ lastOp'.result.success => IsAuthenticated'
       /\ ~lastOp'.result.success =>
            /\ currentUser' = currentUser
            /\ userStorage' = userStorage
  /\ lastOp'.op = "logout" => ~IsAuthenticated'

\* C21: login succeeds exactly for a demo username with "password123"; a
\* failed login leaves the session as it was; a session is authenticated
\* exactly from a successful login to the next logout; and the "rtc_user"
\* entry exists exactly when a user is authenticated.
C21_SessionFollowsLogin ==
  /\ []SessionStoredIffAuthenticated
  /\ [][AuthStepContract]_vars

\* A login with a demo username and a wrong password failed while another
\* user was logged in, and that session is still there
C21_FailedLoginKeepsSessionWitness ==
  /\ lastOp.op = "login"
  /\ ~lastOp.result.success
  /\ lastOp.username \in DemoUsernames
  /\ IsAuthenticated
  /\ UserById(currentUser).username # lastOp.username
  /\ userStorage = UserJson(UserById(currentUser))


(***************************************************************************)
(* Properties of the range functions of the help panel                     *)
(***************************************************************************)
\* The numeric values of the cells of a span
NumericValues(grid, S) == {NumericCoercion(grid, k) : k \in S}

\* The mean of the numeric values of the cells of a span
MeanOver(grid, S) == NumDiv(SumOver(grid, S), IntNum(Cardinality(S)))

\* The largest of the numeric values of the cells of a span
MaxOver(grid, S) ==
  CHOOSE v \in NumericValues(grid, S) :
    \A w \in NumericValues(grid, S) : ~NumLess(v, w)

\* The smallest of the numeric values of the cells of a span
MinOver(grid, S) ==
  CHOOSE v \in NumericValues(grid, S) :
    \A w \in NumericValues(grid, S) : ~NumLess(w, v)

\* The aggregate a range function of the help panel is named after
NamedAggregate(formula, grid, S) ==
  CASE formula = AverageA1A2 -> MeanOver(grid, S)
    [] formula = MaxA1A2 -> MaxOver(grid, S)
    [] formula = MinA1A2 -> MinOver(grid, S)

\* C22: committing "=AVERAGE(X:Y)", "=MAX(X:Y)" or "=MIN(X:Y)" stores the
\* mean, the maximum or the minimum of the numeric values of the cells of
\* the range X:Y.
C22_RangeFunctionsAggregate ==
  [][\A f \in {AverageA1A2, MaxA1A2, MinA1A2} :
       (CommitStep /\ lastOp'.input = f)
         => /\ lastOp'.key \in DOMAIN cells'
            /\ cells'[lastOp'.key].computedValue
                 = NamedAggregate(f, cells, Span(A1, A2))
    ]_vars


(***************************************************************************)
(* The form editor while a field is retyped: translation requests of one   *)
(* field overlap                                                           *)
(***************************************************************************)
\* The first letter of the Khmer greeting, typed before the rest
KhmerLetter == <<"U+179F">>

RetypeInputs == {<<"notes", Str(KhmerLetter)>>, <<"notes", Str(KhmerHello)>>}

InitRetype == InitWith({NullItem})

NextRetype ==
  \/ Login("1")
  \/ OpenEditor("safe-homes-monthly")
  \/ CancelEditor
  \/ SetPrimaryLanguage("km")
  \/ \E input \in RetypeInputs : HandleFieldChange(input[1], input[2])
  \/ AutoTranslateReturns

SpecRetype == InitRetype /\ [][NextRetype]_vars

\* The requests the step resolved
ResolvedRequests == editor.requests \ editor'.requests

\* The request is superseded: its field holds another text by now
Superseded(req) == FieldOf(editor.formData, req.fieldId) # Str(req.text)

\* C23: the result of a superseded translation request is not discarded:
\* when a request resolves whose field holds a newer text, its result still
\* replaces the translation of the field, so that two requests of one field
\* resolving in the reverse order leave the translation of the older text.
C23_SupersededResultKept ==
  [][(editor.shown /\ lastOp'.op = "autoTranslate") =>
       \A req \in ResolvedRequests :
         Superseded(req) =>
           /\ req.fieldId \in DOMAIN editor'.translatedData
           /\ editor'.translatedData[req.fieldId].original = req.text]_vars

\* Both requests of the notes field have resolved, the field holds the
\* greeting typed last, and its translation is the one of the single letter
\* typed first
C23_OlderResultWinsWitness ==
  /\ editor.shown
  /\ editor.requests = {}
  /\ lastOp.op = "autoTranslate"
  /\ FieldOf(editor.formData, "notes") = Str(KhmerHello)
  /\ "notes" \in DOMAIN editor.translatedData
  /\ editor.translatedData["notes"].original = KhmerLetter


(***************************************************************************)
(* Formulas that refer to their own cell, or to each other                 *)
(***************************************************************************)
\* Formula commits per run of the specification of cyclic formulas
MaxCycleOps == 3

CycleTargets == {A1, A2}

CycleExprs ==
  { Bin(Ref(A1), "+", Lit(1)),
    Bin(Ref(A2), "+", Lit(1)),
    Bin(Ref(A1), "+", Ref(A2)) }

CycleFormulas == {ArithmeticFormula(e) : e \in CycleExprs}

\* Nothing saved, or A1 = "5"
CycleStorage ==
  {NullItem, JsonStringify(SetCell(EmptyGrid, A1, LiteralCell(<<"5">>)))}

InitCycle == InitWith(CycleStorage)

\* handleCellEdit(cellKey, formula)
CycleCommit(cellKey, formula) ==
  /\ pc = "ready" /\ nOps < MaxCycleOps
  /\ CommitNow(cellKey, formula)
  /\ CommitFrame

NextCycle ==
  \/ Mount
  \/ \E k \in CycleTargets, f \in CycleFormulas : CycleCommit(k, f)

SpecCycle == InitCycle /\ [][NextCycle]_vars

\* The formula of the expression refers to the address
RECURSIVE RefersTo(_, _)
RefersTo(e, a) ==
  CASE e.k = "lit" -> FALSE
    [] e.k = "ref" -> e.a = a
    [] e.k = "par" -> RefersTo(e.e, a)
    [] e.k = "bin" -> RefersTo(e.l, a) \/ RefersTo(e.r, a)

\* C24: a commit of a formula that refers to its own address, or to a cell
\* whose formula refers back, is one step that stores the value of the
\* formula over the display values the grid held at the commit (its own
\* previous display value, 0 when it had none) and leaves every other cell,
\* the formulas it refers to included, as it was.
C24_CyclicFormulaEvaluatedOnce ==
  [][\A e \in CycleExprs :
       (CommitStep /\ lastOp'.input = ArithmeticFormula(e))
         => /\ lastOp'.key \in DOMAIN cells'
            /\ cells'[lastOp'.key].computedValue = RefEval(cells, e)
            /\ \A k \in DOMAIN cells' \ {lastOp'.key} :
                 k \in DOMAIN cells /\ cells'[k] = cells[k]
    ]_vars

\* "=A1+1" was committed to A1 while A2 held "=A1+1" computed from an earlier
\* A1: A1 went up by one from its own display value, and A2 still shows the
\* value it computed before
C24_SelfAndBackReferenceWitness ==
  /\ lastOp.op = "commit"
  /\ lastOp.key = A1
  /\ lastOp.input = ArithmeticFormula(Bin(Ref(A1), "+", Lit(1)))
  /\ A2 \in DOMAIN cells
  /\ cells[A2].formula = Str(ArithmeticFormula(Bin(Ref(A1), "+", Lit(1))))
  /\ cells[A1].computedValue = cells[A2].computedValue
  /\ cells[A1].computedValue # IntNum(1)


\* submitForm was called and failed: it threw, or returned success = false
SubmitFailed ==
  /\ lastOp'.op = "submitForm"
  /\ lastOp'.result.threw \/ ~lastOp'.result.success

\* submitForm was called and returned success = true
SubmitSucceeded ==
  /\ lastOp'.op = "submitForm"
  /\ ~lastOp'.result.threw
  /\ lastOp'.result.success

\* The step added one submission of the caller, submitted, with the version
\* of the form, and left the submissions there were as they were
OneSubmissionAdded ==
  /\ \A id \in DOMAIN submissions :
       id \in DOMAIN submissions' /\ submissions'[id] = submissions[id]
  /\ Cardinality(DOMAIN submissions' \ DOMAIN submissions) = 1
  /\ \A id \in DOMAIN submissions' \ DOMAIN submissions :
       /\ submissions'[id].status = "submitted"
       /\ submissions'[id].userId = currentUser
       /\ submissions'[id].formId = lastOp'.formId
       /\ submissions'[id].version = GetFormById(lastOp'.formId).version

\* C25: a submitForm that fails leaves the stored submissions and drafts as
\* they were; one that succeeds adds exactly one submission, with status
\* "submitted", the caller's user id and the form's version, and changes no
\* other stored submission.
C25_SubmitAllOrNothing ==
  [][/\ SubmitFailed => (submissions' = submissions /\ drafts' = drafts)
     /\ SubmitSucceeded => OneSubmissionAdded]_vars


(***************************************************************************)
(* FormEditor, the editor without translations.  Its state is the form,    *)
(* the draft and formData, which the editor variable holds.                *)
(***************************************************************************)
\* draft?.id passed where submitForm takes primaryLanguage: the default 'en'
\* applies when there is no draft
DraftIdAsLanguage(draftId) == IF draftId = NoDraft THEN "en" ELSE draftId

\* FormEditor.handleSubmit: submitForm(form.id, formData, draft?.id), then
\* onSave() when it succeeded
FormEditorHandleSubmit ==
  /\ editor.shown
  /\ SubmitForm(editor.formId, editor.formData,
                DraftIdAsLanguage(editor.draftId), NoDraft)
  /\ editor' = AfterSubmit(SubmitOutcome(submissions, currentUser,
                                         editor.formId, editor.formData))
  /\ FormCallFrame

(***************************************************************************)
(* A saved draft is opened in either editor, changed and submitted         *)
(***************************************************************************)
InitDraft == InitEditor

NextDraft ==
  \/ \E u \in Users : Login(u)
  \/ Logout
  \/ \E d \in DOMAIN drafts : OpenDraft(d)
  \/ CancelEditor
  \/ \E v \in {Str(<<>>), IntNum(1)} :
       HandleFieldChange("emergency_placements", v)
  \/ HandleSubmit
  \/ FormEditorHandleSubmit

SpecDraft == InitDraft /\ [][NextDraft]_vars

\* An editor that was opened from a draft submits
DraftSubmitted ==
  /\ editor.shown
  /\ editor.draftId # NoDraft
  /\ lastOp'.op = "submitForm"

\* C26: after a form opened from a saved draft is submitted successfully,
\* from FormEditor or from MultilingualFormEditor, the draft is no longer
\* among the stored drafts; a failed submission keeps the draft.
C26_SubmittedDraftRemoved ==
  [][DraftSubmitted =>
       IF ~lastOp'.result.threw /\ lastOp'.result.success
       THEN editor.draftId \notin DOMAIN drafts'
       ELSE drafts' = drafts]_vars


(***************************************************************************)
(* ValidationService (src/unnamed/part_002)                                *)
(***************************************************************************)
\* ValidationService.isEmpty(value), for the values of form data
IsEmpty(value) ==
  CASE value.t \in {"null", "undefined"} -> TRUE
    [] value.t = "str" -> Trim(value.s) = <<>>
    [] value.t = "num" -> value = NaN
    [] value.t = "array" -> value.items = <<>>
    [] OTHER -> FALSE

\* ValidationService.validateField: the rule rejects the value, for the
\* rule types of the form definitions
ServiceRuleFails(field, rule, value) ==
  CASE rule.type = "required" -> IsEmpty(value)
    [] rule.type = "min" ->
         \/ /\ field.type = "number"
            /\ value.t = "num"
            /\ NumLess(value, IntNum(rule.value))
         \/ /\ field.type = "text"
            /\ value.t = "str"
            /\ Len(value.s) < rule.value
    [] OTHER -> FALSE

\* ValidationService.validateField(field, value, formData)
ValidateField(field, value) ==
  SelectSeq([i \in 1..Len(field.validation) |->
               IF ServiceRuleFails(field, field.validation[i], value)
               THEN field.validation[i].message ELSE ""],
            LAMBDA m : m # "")

\* The ids of the fields ValidationService.validateForm finds errors for
ServiceFieldsInError(form, data) ==
  {form.fields[i].id : i \in {j \in 1..Len(form.fields) :
      ValidateField(form.fields[j], FieldOf(data, form.fields[j].id)) # <<>>}}

\* ValidationService.validateForm(form, formData).errors
ServiceValidationErrors(form, data) ==
  [k \in ServiceFieldsInError(form, data)
         \cup (IF FormRuleErrors(form, data) # <<>> THEN {"form"} ELSE {}) |->
     IF k = "form" THEN FormRuleErrors(form, data)
     ELSE ValidateField(FieldOfForm(form, k), FieldOf(data, k))]

\* ValidationService.validateForm(form, formData)
ServiceValidateForm(form, data) ==
  ValidationResult(ServiceValidationErrors(form, data))

(***************************************************************************)
(* The two validators on the safe homes form                               *)
(***************************************************************************)
\* What a count field can hold: nothing, null, a cleared input, blanks,
\* and numbers around 0
CountInputs ==
  {Undefined, Null, Str(<<>>), Str(<<" ">>), IntNum(-1), IntNum(0), IntNum(1)}

\* obj with the key set, or without the key for undefined
WithField(obj, key, value) ==
  IF value = Undefined THEN ObjectDelete(obj, key)
  ELSE ObjectPut(obj, key, value)

ValidateInputs ==
  { WithField(SafeHomesData(FirstPeriod, placements), "families_served",
              families) :
      placements \in CountInputs, families \in CountInputs }
  \cup {SchoolsData(January, y) : y \in {2019, 2024}}

\* Both validators are called with the form of the id and the data
CallValidateForm(formId, data) ==
  /\ lastOp' = [op |-> "validateForm", formId |-> formId, data |-> data,
                result |-> ValidateForm(GetFormById(formId), data),
                service |-> ServiceValidateForm(GetFormById(formId), data)]
  /\ UNCHANGED <<sheetVars, storeVars, nOps, currentUser, userStorage,
                 submissions, drafts, now, editor>>

InitValidate == InitWith({NullItem})

NextValidate ==
  \E formId \in {"safe-homes-monthly", "schools-monthly"} :
    \E data \in ValidateInputs : CallValidateForm(formId, data)

SpecValidate == InitValidate /\ [][NextValidate]_vars

\* The value is missing, empty or negative
MissingEmptyOrNegative(value) ==
  \/ value \in {Undefined, Null}
  \/ value.t = "str" /\ Trim(value.s) = <<>>
  \/ value.t = "num" /\ NumLess(value, IntNum(0))

\* The required fields of the safe homes form with min 0 that the inputs vary
CountFieldsVaried == {"families_served", "emergency_placements"}

\* C27: for a required number field with min 0, FormService.validateForm
\* reports an error for the field exactly when its value is missing, empty
\* or negative (0 is accepted), and ValidationService.validateForm reports
\* an error for the field on the same data exactly when it does.
C27_ZeroIsAccepted ==
  [][(lastOp'.op = "validateForm" /\ lastOp'.formId = "safe-homes-monthly")
     => \A f \in CountFieldsVaried :
          /\ (f \in DOMAIN lastOp'.result.errors)
               <=> MissingEmptyOrNegative(FieldOf(lastOp'.data, f))
          /\ (f \in DOMAIN lastOp'.result.errors)
               <=> (f \in DOMAIN lastOp'.service.errors)]_vars


\* C28: isTranslating is true in every state in which a translation request
\* issued by a commit is still unresolved, and false in every state in
\* which none is, also when literal commits overlap.
C28_TranslatingIffPending == isTranslating <=> (pending # {})


(***************************************************************************)
(* Properties of the grid size and of the cursor                           *)
(***************************************************************************)
\* columnHeaders: String.fromCharCode(65 + i) for i below cols
ColumnHeaders == [i \in 1..cols |-> FromCharCode(65 + (i - 1))]

\* The numbers asked of set-rows and set-columns in the specifications
SizeRequests == {0, 1, 2, 26, 27, 101}

\* C29: after any set-rows, set-columns, add-row and add-column operations
\* 1 <= rows <= 100 and 1 <= cols <= 26, so every column header is one letter
\* of A..Z; a set-rows or set-columns request outside these ranges leaves
\* the dimensions unchanged.
C29_DimensionsStayInRange ==
  /\ [](/\ rows \in 1..100
        /\ cols \in 1..26
        /\ \A i \in 1..cols : IsUpper(ColumnHeaders[i]))
  /\ [][\A n \in SizeRequests :
          (\/ HandleSetRows(n) /\ n \notin 1..100
           \/ HandleSetCols(n) /\ n \notin 1..26)
          => UNCHANGED sizeVars]_vars

\* C30: after any click, arrow key, Tab, commit and resize operations the
\* selected address, and the address under edit if there is one, is the
\* address of a cell of the current grid: its row is in 1..rows and its
\* column is one of the first cols letters.
C30_CursorInsideGrid ==
  /\ Rendered(selectedCell)
  /\ editingCell # NoCell => Rendered(editingCell)

=============================================================================
